---- MODULE Spec2Model ----
(***************************************************************************)
(* Model of the Fathom webhook ingestion layer (api/webhook.py): signature *)
(* verification, payload normalization, and the do_POST request handler    *)
(* with its two-stage pipeline.                                            *)
(*                                                                         *)
(* Representation.  A Python str is a sequence of code points (naturals),  *)
(* a Python bytes object is a sequence of byte values 0..255.  A Python    *)
(* value produced by json.loads is a tagged record [t |-> tag, v |-> ...]. *)
(* A call that raises is represented by an outcome record naming the       *)
(* exception type, never by a chosen return value.                         *)
(***************************************************************************)
EXTENDS Integers, Sequences, FiniteSets, TLC

VARIABLES
    pc,         \* position of the request / of the function under call
    environ,    \* os.environ: variable name -> str (absent = not in DOMAIN)
    now,        \* int(time.time())
    headers,    \* request headers: name -> str (absent = not in DOMAIN)
    raw_body,   \* bytes on the wire
    vresult,    \* outcome of verify_signature
    payload,    \* value produced by json.loads
    nresult,    \* outcome of normalize_payload
    response,   \* sequence of HTTP status codes sent by _json
    files,      \* /tmp/.tmp: artifact path -> content
    stages,     \* the stage invocations made by run_step, in order
    rfile,      \* bytes the sender put on the wire
    escaped,    \* the exception that left do_POST uncaught ("" when none)
    store,      \* the Meetings table of the external store: records, in order
    written,    \* the artifact paths the stages of this request have written
    argv,       \* the command line of process_meeting.py (<<>> under the webhook)
    tasks       \* log_to_airtable.py: the attempts to create a task record, in order

vars == <<pc, environ, now, headers, raw_body, vresult, payload, nresult,
          response, files, stages, rfile, escaped, store, written, argv, tasks>>

----------------------------------------------------------------------------
(* Bounds of the model *)

\* most space-separated entries drawn for the webhook-signature header
MaxSigEntries == 2
\* most transcript segments drawn for normalize_payload
MaxSegments == 3
\* the value of int(time.time()) at the start of a behaviour
BaseTime == 1000

\* the seconds the clock advances over the redeliveries of one request
MaxClockAdvance == 2
\* the sender stops redelivering once the store holds this many meeting records
MaxMeetingRecords == 2

----------------------------------------------------------------------------
(* Program constants *)

TIMESTAMP_TOLERANCE == 300

\* the separators the code names literally
SPACE == 32
COMMA == 44
DOT == 46
SLASH == 47

\* "v1"
TagV1 == <<118, 49>>
\* "whsec_"
SecretPrefix == <<119, 104, 115, 101, 99, 95>>

----------------------------------------------------------------------------
(* Generic helpers on sequences *)

Abs(x) == IF x < 0 THEN -x ELSE x

Drop(s, n) == SubSeq(s, n + 1, Len(s))

Take(s, n) == SubSeq(s, 1, n)

Contains(s, c) == \E i \in 1..Len(s) : s[i] = c

\* index of the first occurrence of c in s (0 when absent)
IndexOf(s, c) ==
    IF Contains(s, c) THEN CHOOSE i \in 1..Len(s) : s[i] = c /\ \A j \in 1..(i - 1) : s[j] # c
    ELSE 0

\* all sequences over S of length at most n
SeqUpTo(S, n) == UNION {[1..k -> S] : k \in 0..n}

RECURSIVE Join(_, _)
\* sep.join(parts)
Join(parts, sep) ==
    IF parts = <<>> THEN <<>>
    ELSE IF Len(parts) = 1 THEN parts[1]
    ELSE parts[1] \o <<sep>> \o Join(Tail(parts), sep)

----------------------------------------------------------------------------
(* Python built-ins used by verify_signature *)

\* dict.get(key, "") / os.environ.get(key, "")
Get(d, key) == IF key \in DOMAIN d THEN d[key] ELSE <<>>

RECURSIVE Split(_, _)
\* str.split(sep): every occurrence of sep separates two (possibly empty) parts
Split(s, sep) ==
    LET i == IndexOf(s, sep)
    IN IF i = 0 THEN <<s>>
       ELSE <<Take(s, i - 1)>> \o Split(Drop(s, i), sep)

\* str.split(sep, 1): split on the first occurrence only
SplitFirst(s, sep) ==
    LET i == IndexOf(s, sep)
    IN IF i = 0 THEN <<s>>
       ELSE <<Take(s, i - 1), Drop(s, i)>>

\* str.removeprefix(prefix)
RemovePrefix(s, prefix) ==
    IF Len(s) >= Len(prefix) /\ Take(s, Len(prefix)) = prefix
    THEN Drop(s, Len(prefix)) ELSE s

RECURSIVE RemoveAll(_, _)
\* s.replace(old, ""), for a non-empty old: occurrences dropped left to right
RemoveAll(s, old) ==
    IF Len(s) < Len(old) THEN s
    ELSE IF Take(s, Len(old)) = old THEN RemoveAll(Drop(s, Len(old)), old)
    ELSE <<Head(s)>> \o RemoveAll(Tail(s), old)

IsAscii(s) == \A i \in 1..Len(s) : s[i] < 128

IsDigit(c) == c >= 48 /\ c <= 57

RECURSIVE StripLeft(_)
StripLeft(s) == IF s # <<>> /\ Head(s) = SPACE THEN StripLeft(Tail(s)) ELSE s

RECURSIVE StripRight(_)
StripRight(s) ==
    IF s # <<>> /\ s[Len(s)] = SPACE THEN StripRight(Take(s, Len(s) - 1)) ELSE s

RECURSIVE DigitsValue(_)
\* value of a non-empty run of decimal digits
DigitsValue(s) ==
    IF s = <<>> THEN 0
    ELSE 10 * DigitsValue(Take(s, Len(s) - 1)) + (s[Len(s)] - 48)

\* the text int() looks at: surrounding whitespace stripped, sign removed
IntBody(s) ==
    LET t == StripRight(StripLeft(s))
    IN IF t # <<>> /\ Head(t) \in {43, 45} THEN Tail(t) ELSE t

\* int(s) succeeds (otherwise it raises ValueError)
IntParses(s) ==
    LET b == IntBody(s)
    IN b # <<>> /\ \A i \in 1..Len(b) : IsDigit(b[i])

\* int(s), for s with IntParses(s)
IntValue(s) ==
    LET t == StripRight(StripLeft(s))
        v == DigitsValue(IntBody(s))
    IN IF t # <<>> /\ Head(t) = 45 THEN -v ELSE v

RECURSIVE IntToStr(_)
\* str(n) for n >= 0
IntToStr(n) ==
    IF n < 10 THEN <<48 + n>>
    ELSE IntToStr(n \div 10) \o <<48 + (n % 10)>>

----------------------------------------------------------------------------
(* UTF-8: one-byte and two-byte forms.  Every other lead byte, a stray      *)
(* continuation byte, an overlong two-byte form or a truncated sequence is  *)
(* a decode error.                                                          *)

IsContinuation(b) == b >= 128 /\ b <= 191

IsLead2(b) == b >= 194 /\ b <= 223

RECURSIVE Utf8Valid(_)
\* bytes.decode("utf-8") succeeds (otherwise it raises UnicodeDecodeError)
Utf8Valid(bs) ==
    IF bs = <<>> THEN TRUE
    ELSE IF Head(bs) < 128 THEN Utf8Valid(Tail(bs))
    ELSE IF IsLead2(Head(bs)) /\ Len(bs) >= 2 /\ IsContinuation(bs[2])
         THEN Utf8Valid(Drop(bs, 2))
    ELSE FALSE

RECURSIVE Utf8Decode(_)
\* bytes.decode("utf-8"), for bs with Utf8Valid(bs)
Utf8Decode(bs) ==
    IF bs = <<>> THEN <<>>
    ELSE IF Head(bs) < 128 THEN <<Head(bs)>> \o Utf8Decode(Tail(bs))
    ELSE <<(Head(bs) - 192) * 64 + (bs[2] - 128)>> \o Utf8Decode(Drop(bs, 2))

RECURSIVE Utf8Encode(_)
\* str.encode("utf-8") for code points below 0x800
Utf8Encode(s) ==
    IF s = <<>> THEN <<>>
    ELSE IF Head(s) < 128 THEN <<Head(s)>> \o Utf8Encode(Tail(s))
    ELSE <<192 + (Head(s) \div 64), 128 + (Head(s) % 64)>> \o Utf8Encode(Tail(s))

----------------------------------------------------------------------------
(* base64.b64decode (binascii.a2b_base64, non-strict mode)                  *)

\* the 6-bit value of a base64 alphabet character, 64 for any other
B64Value(c) ==
    IF c >= 65 /\ c <= 90 THEN c - 65
    ELSE IF c >= 97 /\ c <= 122 THEN c - 71
    ELSE IF c >= 48 /\ c <= 57 THEN c + 4
    ELSE IF c = 43 THEN 62
    ELSE IF c = 47 THEN 63
    ELSE 64

RECURSIVE B64Loop(_, _, _, _, _)
\* the decoding loop: quad_pos, leftchar and pads as in the C source;
\* the result is [ok |-> BOOLEAN, bytes |-> decoded bytes]
B64Loop(s, quad_pos, leftchar, pads, out) ==
    IF s = <<>> THEN [ok |-> quad_pos = 0, bytes |-> out]
    ELSE LET c == Head(s)
             v == B64Value(c)
         IN IF c = 61
            THEN IF quad_pos >= 2 /\ quad_pos + pads + 1 >= 4
                 THEN [ok |-> TRUE, bytes |-> out]
                 ELSE B64Loop(Tail(s), quad_pos, leftchar,
                              IF quad_pos >= 2 THEN pads + 1 ELSE pads, out)
            ELSE IF v >= 64 THEN B64Loop(Tail(s), quad_pos, leftchar, pads, out)
            ELSE IF quad_pos = 0 THEN B64Loop(Tail(s), 1, v, 0, out)
            ELSE IF quad_pos = 1
                 THEN B64Loop(Tail(s), 2, v % 16, 0, Append(out, leftchar * 4 + (v \div 16)))
            ELSE IF quad_pos = 2
                 THEN B64Loop(Tail(s), 3, v % 4, 0, Append(out, leftchar * 16 + (v \div 4)))
            ELSE B64Loop(Tail(s), 0, 0, 0, Append(out, leftchar * 64 + v))

\* base64.b64decode(s) returns (otherwise it raises ValueError / binascii.Error)
B64DecodeOk(s) == IsAscii(s) /\ B64Loop(s, 0, 0, 0, <<>>).ok

\* base64.b64decode(s), for s with B64DecodeOk(s)
B64Decode(s) == B64Loop(s, 0, 0, 0, <<>>).bytes

----------------------------------------------------------------------------
(* HMAC-SHA256 followed by base64.b64encode.                                *)
(* The MAC is modelled as an ideal one: its text is an injective encoding   *)
(* of (key, message) over characters of the base64 alphabet, so two         *)
(* signatures are equal exactly when key and message are equal.  The text   *)
(* is ASCII and holds no space and no comma, as base64 text does.           *)

HexDigit(n) == IF n < 10 THEN 48 + n ELSE 87 + n

RECURSIVE Hex(_)
Hex(bs) ==
    IF bs = <<>> THEN <<>>
    ELSE <<HexDigit(Head(bs) \div 16), HexDigit(Head(bs) % 16)>> \o Hex(Tail(bs))

\* base64.b64encode(hmac.new(key, msg, hashlib.sha256).digest()).decode("utf-8")
HmacSha256B64(key, msg) == Hex(key) \o <<SLASH>> \o Hex(msg)

----------------------------------------------------------------------------
(* verify_signature                                                         *)

\* outcomes of a call: a returned value, or an exception that propagates
Returned(value, diag) == [kind |-> "return", value |-> value, diag |-> diag]

Raised(exc) == [kind |-> "raise", value |-> FALSE, diag |-> exc]

NotCalled == [kind |-> "none", value |-> FALSE, diag |-> ""]

\* `if not secret_raw`
SecretConfigured(secret_raw) == secret_raw # <<>>

\* a slip: the identifier is left out of the presence check
HeadersPresent_WithoutId(msg_id, msg_timestamp, msg_signature) ==
    msg_timestamp # <<>> /\ msg_signature # <<>>

\* `all([msg_id, msg_timestamp, msg_signature])`
HeadersPresent(msg_id, msg_timestamp, msg_signature) ==
    msg_id # <<>> /\ msg_timestamp # <<>> /\ msg_signature # <<>>

\* a slip: the bound made exclusive
OutsideTolerance_Exclusive(t, ts) == Abs(t - ts) >= TIMESTAMP_TOLERANCE

\* `abs(int(time.time()) - ts) > TIMESTAMP_TOLERANCE`
OutsideTolerance(t, ts) == Abs(t - ts) > TIMESTAMP_TOLERANCE

\* a slip: the header values stripped of whitespace before they are signed
SignedContent_Stripped(msg_id, msg_timestamp, body_text) ==
    StripRight(StripLeft(msg_id)) \o <<DOT>> \o StripRight(StripLeft(msg_timestamp))
        \o <<DOT>> \o body_text

\* f"{msg_id}.{msg_timestamp}.{raw_body.decode('utf-8')}"
SignedContent(msg_id, msg_timestamp, body_text) ==
    msg_id \o <<DOT>> \o msg_timestamp \o <<DOT>> \o body_text

\* base64.b64encode(hmac.new(secret_bytes, signed_content.encode("utf-8"), sha256).digest())
ExpectedSignature(secret_bytes, signed_content) ==
    HmacSha256B64(secret_bytes, Utf8Encode(signed_content))

\* `len(parts) == 2 and parts[0] == "v1"`
IsV1Entry(parts) == Len(parts) = 2 /\ parts[1] = TagV1

RECURSIVE CompareEntries(_, _)
\* the loop over msg_signature.split(" "): hmac.compare_digest on two str
\* raises TypeError when either holds a non-ASCII character
CompareEntries(entries, expected) ==
    IF entries = <<>> THEN Returned(FALSE, "No matching v1 signature found")
    ELSE LET parts == SplitFirst(Head(entries), COMMA)
         IN IF IsV1Entry(parts)
            THEN IF ~IsAscii(parts[2]) \/ ~IsAscii(expected) THEN Raised("TypeError")
                 ELSE IF expected = parts[2] THEN Returned(TRUE, "")
                 ELSE CompareEntries(Tail(entries), expected)
            ELSE CompareEntries(Tail(entries), expected)

verify_signature(body, hdrs, env, t) ==
    LET secret_raw    == Get(env, "FATHOM_WEBHOOK_SECRET")
        msg_id        == Get(hdrs, "webhook-id")
        msg_timestamp == Get(hdrs, "webhook-timestamp")
        msg_signature == Get(hdrs, "webhook-signature")
        secret_text   == RemovePrefix(secret_raw, SecretPrefix)
    IN IF ~SecretConfigured(secret_raw)
       THEN Returned(FALSE, "FATHOM_WEBHOOK_SECRET not set")
       ELSE IF ~HeadersPresent(msg_id, msg_timestamp, msg_signature)
       THEN Returned(FALSE, "Missing required signature headers")
       ELSE IF ~IntParses(msg_timestamp)
       THEN Returned(FALSE, "webhook-timestamp is not an integer")
       ELSE IF OutsideTolerance(t, IntValue(msg_timestamp))
       THEN Returned(FALSE, "Timestamp outside tolerance")
       ELSE IF ~B64DecodeOk(secret_text)
       THEN Returned(FALSE, "Failed to decode webhook secret")
       ELSE IF ~Utf8Valid(body)
       THEN Raised("UnicodeDecodeError")
       ELSE CompareEntries(
                Split(msg_signature, SPACE),
                ExpectedSignature(B64Decode(secret_text),
                                  SignedContent(msg_id, msg_timestamp, Utf8Decode(body))))

----------------------------------------------------------------------------
(* Python values produced by json.loads: tagged records                     *)

PyNone == [t |-> "None", v |-> <<>>]

PyStr(s) == [t |-> "str", v |-> s]

PyInt(n) == [t |-> "int", v |-> n]

PyList(items) == [t |-> "list", v |-> items]

\* a dict: v is a function from key names to values
PyDict(f) == [t |-> "dict", v |-> f]

EmptyDict == PyDict(<<>>)

\* bool(x) is False: None, 0, "", [] and {}
Falsy(x) ==
    \/ x.t = "None"
    \/ x.t = "int" /\ x.v = 0
    \/ x.t \in {"str", "list"} /\ x.v = <<>>
    \/ x.t = "dict" /\ DOMAIN x.v = {}

\* d.get(key, default) on a dict d
DictGet(d, key, default) == IF key \in DOMAIN d.v THEN d.v[key] ELSE default

\* hash(x) succeeds: lists and dicts are unhashable
Hashable(x) == x.t \notin {"list", "dict"}

\* str(x) for the values the model draws as a bare speaker
PyStrOf(x) ==
    CASE x.t = "str" -> x.v
      [] x.t = "None" -> <<78, 111, 110, 101>>                  \* "None"
      [] x.t = "int" -> IntToStr(x.v)
      [] OTHER -> <<>>

\* "Unknown"
UnknownName == <<85, 110, 107, 110, 111, 119, 110>>

\* "Untitled Meeting"
UntitledMeeting ==
    <<85, 110, 116, 105, 116, 108, 101, 100, 32, 77, 101, 101, 116, 105, 110, 103>>

\* "transcript_"
TranscriptPrefix == <<116, 114, 97, 110, 115, 99, 114, 105, 112, 116, 95>>

\* "recordings" and "calls"
Recordings == <<114, 101, 99, 111, 114, 100, 105, 110, 103, 115>>

Calls == <<99, 97, 108, 108, 115>>

----------------------------------------------------------------------------
(* urllib.parse.urlparse(url).path, for URLs without parameters or control  *)
(* characters; a bracket in the host is drawn only unbalanced               *)

\* the text before the first occurrence of c (all of s when c is absent)
Before(s, c) == IF Contains(s, c) THEN Take(s, IndexOf(s, c) - 1) ELSE s

IsSchemeChar(c) ==
    \/ c >= 97 /\ c <= 122
    \/ c >= 65 /\ c <= 90
    \/ IsDigit(c)
    \/ c \in {43, 45, 46}

\* url with its scheme and colon removed, when it has a scheme
WithoutScheme(url) ==
    LET i == IndexOf(url, 58)
    IN IF i > 1 /\ ~IsDigit(url[1]) /\ \A j \in 1..(i - 1) : IsSchemeChar(url[j])
       THEN Drop(url, i) ELSE url

\* rest with its //netloc removed, when it starts with //
WithoutNetloc(rest) ==
    IF Len(rest) >= 2 /\ rest[1] = SLASH /\ rest[2] = SLASH
    THEN LET after == Drop(rest, 2)
             cut == {k \in 1..Len(after) : after[k] \in {SLASH, 63, 35}}
         IN IF cut = {} THEN <<>>
            ELSE Drop(after, (CHOOSE k \in cut : \A m \in cut : k <= m) - 1)
    ELSE rest

\* the netloc urlsplit cuts off rest: the text between // and the first of
\* / ? # (empty when rest does not start with //)
Netloc(rest) ==
    IF Len(rest) >= 2 /\ rest[1] = SLASH /\ rest[2] = SLASH
    THEN LET after == Drop(rest, 2)
             cut == {k \in 1..Len(after) : after[k] \in {SLASH, 63, 35}}
         IN IF cut = {} THEN after
            ELSE Take(after, (CHOOSE k \in cut : \A m \in cut : k <= m) - 1)
    ELSE <<>>

\* urlsplit raises ValueError("Invalid IPv6 URL"): one bracket without the other
UrlInvalid(url) ==
    LET netloc == Netloc(WithoutScheme(url))
    IN Contains(netloc, 91) # Contains(netloc, 93)

UrlPath(url) == Before(Before(WithoutNetloc(WithoutScheme(url)), 35), 63)

RECURSIVE StripChar(_, _)
\* str.strip(c)
StripChar(s, c) ==
    IF s # <<>> /\ Head(s) = c THEN StripChar(Tail(s), c)
    ELSE IF s # <<>> /\ s[Len(s)] = c THEN StripChar(Take(s, Len(s) - 1), c)
    ELSE s

----------------------------------------------------------------------------
(* extract_recording_id and normalize_payload                               *)

\* a value returned by a call
ReturnedValue(value) == [kind |-> "return", value |-> value, diag |-> ""]

\* `len(segments) >= 2 and segments[-2] in ("recordings", "calls") and segments[-1]`
IsRecordingPath(segments) ==
    /\ Len(segments) >= 2
    /\ segments[Len(segments) - 1] \in {Recordings, Calls}
    /\ segments[Len(segments)] # <<>>

extract_recording_id(p, t) ==
    IF p.t # "dict" THEN Raised("AttributeError")
    ELSE LET url == DictGet(p, "url", PyStr(<<>>))
         IN IF Falsy(url) THEN ReturnedValue(IntToStr(t))
            ELSE IF url.t # "str" THEN Raised("AttributeError")
            ELSE IF UrlInvalid(url.v) THEN Raised("ValueError")
            ELSE LET segments == Split(StripChar(UrlPath(url.v), SLASH), SLASH)
                 IN IF IsRecordingPath(segments)
                    THEN ReturnedValue(segments[Len(segments)])
                    ELSE ReturnedValue(IntToStr(t))

\* a slip: the membership test dropped, every name appended
NotSeen_Always(name, seen) == TRUE

\* `name not in seen`
NotSeen(name, seen) == name \notin seen

RECURSIVE ParticipantsLoop(_, _, _)
\* the loop `for seg in transcript` over the items the iteration yields
ParticipantsLoop(items, seen, participants) ==
    IF items = <<>> THEN ReturnedValue(participants)
    ELSE LET seg == Head(items)
         IN IF seg.t # "dict" THEN Raised("AttributeError")
            ELSE LET speaker == DictGet(seg, "speaker", EmptyDict)
                     name == IF speaker.t = "dict"
                             THEN DictGet(speaker, "display_name", PyStr(UnknownName))
                             ELSE PyStr(PyStrOf(speaker))
                 IN IF ~Hashable(name) THEN Raised("TypeError")
                    ELSE IF NotSeen(name, seen)
                    THEN ParticipantsLoop(Tail(items), seen \cup {name},
                                          Append(participants, name))
                    ELSE ParticipantsLoop(Tail(items), seen, participants)

\* iter(x) succeeds: None and int are not iterable
Iterable(x) == x.t \in {"list", "str", "dict"}

\* the items `for seg in x` yields: the items of a list, the characters of
\* a str; a dict yields its keys, each a str (the loop fails on the first
\* one, so the text of a key is immaterial and stands as "k")
IterItems(x) ==
    CASE x.t = "list" -> x.v
      [] x.t = "str" -> [i \in 1..Len(x.v) |-> PyStr(<<x.v[i]>>)]
      [] OTHER -> [i \in 1..Cardinality(DOMAIN x.v) |-> PyStr(<<107>>)]

normalize_payload(p, t) ==
    LET rid == extract_recording_id(p, t)
    IN IF rid.kind = "raise" THEN rid
       ELSE LET transcript == DictGet(p, "transcript", PyList(<<>>))
            IN IF ~Iterable(transcript) THEN Raised("TypeError")
               ELSE LET loop == ParticipantsLoop(IterItems(transcript), {}, <<>>)
                    IN IF loop.kind = "raise" THEN loop
                       ELSE ReturnedValue(
                              [normalized |->
                                 [title |-> DictGet(p, "meeting_title", PyStr(UntitledMeeting)),
                                  date |-> DictGet(p, "created_at", PyStr(<<>>)),
                                  participants |-> loop.value,
                                  transcript |-> transcript],
                               recording_id |-> rid.value])

----------------------------------------------------------------------------
(* Inputs drawn for verify_signature                                        *)

\* the key b"k", configured as whsec_aw==, and a retired key b"o"
CurrentKey == <<107>>

RetiredKey == <<111>>

\* "aw==" = base64(b"k")
CurrentKeyB64 == <<97, 119, 61, 61>>

Environments ==
    { <<>>,                                                   \* variable unset
      [FATHOM_WEBHOOK_SECRET |-> <<>>],                       \* set, empty
      [FATHOM_WEBHOOK_SECRET |-> SecretPrefix \o CurrentKeyB64],
      [FATHOM_WEBHOOK_SECRET |-> CurrentKeyB64],              \* no whsec_ prefix
      [FATHOM_WEBHOOK_SECRET |-> SecretPrefix \o <<97>>],     \* not base64
      [FATHOM_WEBHOOK_SECRET |-> SecretPrefix \o <<233>>] }   \* non-ASCII

UsableEnvironments == {e \in Environments : B64DecodeOk(RemovePrefix(Get(e, "FATHOM_WEBHOOK_SECRET"), SecretPrefix)) /\ Get(e, "FATHOM_WEBHOOK_SECRET") # <<>>}

\* request bodies: "", "a", "ab", "é" (C3 A9), a lone lead byte C3, a lone FF
Bodies == { <<>>, <<97>>, <<97, 98>>, <<195, 169>>, <<195>>, <<255>> }

\* delivery identifiers: "m" and "n"
Identifiers == { <<109>>, <<110>> }

\* timestamps around the tolerance window, as str(int)
FreshTimestamps ==
    { IntToStr(BaseTime - TIMESTAMP_TOLERANCE), IntToStr(BaseTime),
      IntToStr(BaseTime + TIMESTAMP_TOLERANCE) }

StaleTimestamps ==
    { IntToStr(BaseTime - TIMESTAMP_TOLERANCE - 1),
      IntToStr(BaseTime + TIMESTAMP_TOLERANCE + 1) }

\* "1x", "1.5" and " <now>" (int() strips whitespace)
OddTimestamps == { <<49, 120>>, <<49, 46, 53>>, <<SPACE>> \o IntToStr(BaseTime) }

\* the sender's signature: base64(HMAC-SHA256(key, identifier.timestamp.body)),
\* computed over the bytes on the wire
SenderSignature(key, id, ts, body) ==
    HmacSha256B64(key, Utf8Encode(id) \o <<DOT>> \o Utf8Encode(ts) \o <<DOT>> \o body)

V1Entry(sig) == TagV1 \o <<COMMA>> \o sig

\* every string that differs from s in exactly one position, the new
\* character drawn from alphabet
OneByteChanges(s, alphabet) ==
    { [s EXCEPT ![i] = c] : i \in 1..Len(s), c \in alphabet } \ {s}

\* the deliveries that differ from (id, ts, body) in exactly one byte of
\* exactly one of the three
OneByteNeighbours(id, ts, body) ==
    { <<i, ts, body>> : i \in OneByteChanges(id, {109, 110}) }
    \cup { <<id, t, body>> : t \in OneByteChanges(ts, {49}) }
    \cup { <<id, ts, b>> : b \in OneByteChanges(body, {98, 169}) }

\* the entries a webhook-signature header is assembled from, for the
\* delivery (id, ts, body)
SignatureEntries(id, ts, body) ==
    { V1Entry(SenderSignature(CurrentKey, id, ts, body)),             \* valid
      V1Entry(SenderSignature(RetiredKey, id, ts, body)),             \* stale
      <<118, 50, COMMA>> \o SenderSignature(CurrentKey, id, ts, body), \* v2 tag
      SenderSignature(CurrentKey, id, ts, body),                      \* no comma
      V1Entry(<<233>>),                                               \* v1,é
      <<>> }                                                          \* empty
    \cup { V1Entry(SenderSignature(CurrentKey, n[1], n[2], n[3])) :
             n \in OneByteNeighbours(id, ts, body) }

SignatureHeaders(id, ts, body) ==
    { Join(es, SPACE) : es \in SeqUpTo(SignatureEntries(id, ts, body), MaxSigEntries) }

HeaderNames == {"webhook-id", "webhook-timestamp", "webhook-signature"}

\* the header mapping holding id, ts and sig under the names in present
HeaderMap(present, id, ts, sig) ==
    [k \in present |-> CASE k = "webhook-id" -> id
                         [] k = "webhook-timestamp" -> ts
                         [] OTHER -> sig]

\* a value json.loads has not produced / a call that has not been made
NoValue == [t |-> "unset", v |-> <<>>]

\* inputs with a missing, empty or malformed part
MissingInputs ==
    /\ environ \in Environments
    /\ raw_body \in Bodies
    /\ \E present \in SUBSET HeaderNames,
          id \in {<<>>, <<109>>},
          ts \in {<<>>} \cup FreshTimestamps \cup StaleTimestamps \cup OddTimestamps :
          \E sig \in {<<>>, V1Entry(<<233>>),
                      V1Entry(SenderSignature(CurrentKey, id, ts, raw_body))} :
             headers = HeaderMap(present, id, ts, sig)

\* complete inputs inside the tolerance window, with every signature header
SignedInputs ==
    /\ environ \in UsableEnvironments
    /\ raw_body \in Bodies
    /\ \E id \in Identifiers, ts \in FreshTimestamps :
          \E sig \in SignatureHeaders(id, ts, raw_body) :
             headers = HeaderMap(HeaderNames, id, ts, sig)

\* deliveries (identifier, timestamp, body) the sender may have signed:
\* "m", <now>, "a"; the same with the identifier "n", with the timestamp
\* " <now>" and with the body "ab"; and the two that read the same text
\* "m.<now>.<now>.a" with the identifier "m.<now>" or with the body
\* "<now>.a"
DeliveriesDrawn ==
    LET T == IntToStr(BaseTime)
    IN { <<(<<109>>), T, (<<97>>)>>,
         <<(<<110>>), T, (<<97>>)>>,
         <<(<<109>>), <<SPACE>> \o T, (<<97>>)>>,
         <<(<<109>>), T, (<<97, 98>>)>>,
         <<(<<109, DOT>> \o T), T, (<<97>>)>>,
         <<(<<109>>), T, T \o <<DOT, 97>>>> }

\* the header the sender gives the delivery d
SignatureOf(d) == V1Entry(SenderSignature(CurrentKey, d[1], d[2], d[3]))

\* a request made of the identifier, timestamp and body of one delivery
\* with the signature the sender gave to a delivery, the same or another
ReframedInputs ==
    /\ environ \in UsableEnvironments
    /\ \E signed \in DeliveriesDrawn, request \in DeliveriesDrawn :
          /\ raw_body = request[3]
          /\ headers = HeaderMap(HeaderNames, request[1], request[2], SignatureOf(signed))

InitVerify ==
    /\ pc = "verify_signature"
    /\ now = BaseTime
    /\ (MissingInputs \/ SignedInputs \/ ReframedInputs)
    /\ vresult = NotCalled
    /\ payload = NoValue
    /\ nresult = NotCalled
    /\ response = <<>>
    /\ files = <<>>
    /\ stages = <<>>
    /\ rfile = <<>>
    /\ escaped = ""
    /\ store = <<>>
    /\ written = {}
    /\ argv = <<>>
    /\ tasks = <<>>

\* one call of verify_signature(raw_body, headers)
CallVerify ==
    /\ pc = "verify_signature"
    /\ vresult' = verify_signature(raw_body, headers, environ, now)
    /\ pc' = "returned"
    /\ UNCHANGED <<environ, now, headers, raw_body, payload, nresult, response,
                   files, stages, rfile, escaped>>
    /\ UNCHANGED <<store, written>>
    /\ UNCHANGED <<argv, tasks>>

NextVerify == CallVerify

SpecVerify == InitVerify /\ [][NextVerify]_vars

----------------------------------------------------------------------------
(* json.loads on the request bodies the model draws.  Every body of         *)
(* PostBodies and every prefix of one (a short Content-Length truncates     *)
(* the read) is either listed here or is not JSON.                          *)

\* {}
BodyEmptyObject == <<123, 125>>

\* []
BodyEmptyArray == <<91, 93>>

\* null
BodyNull == <<110, 117, 108, 108>>

\* {"url":"/calls/x"}
BodyWithUrl ==
    <<123, 34, 117, 114, 108, 34, 58, 34, 47, 99, 97, 108, 108, 115, 47, 120, 34, 125>>

\* {"transcript":null}
BodyNullTranscript ==
    <<123, 34, 116, 114, 97, 110, 115, 99, 114, 105, 112, 116, 34, 58,
      110, 117, 108, 108, 125>>

\* json.loads(text) returns (otherwise it raises json.JSONDecodeError)
JsonParses(text) ==
    text \in {BodyEmptyObject, BodyEmptyArray, BodyNull, BodyWithUrl, BodyNullTranscript}

\* json.loads(text), for text with JsonParses(text)
JsonLoads(text) ==
    CASE text = BodyEmptyObject -> EmptyDict
      [] text = BodyEmptyArray -> PyList(<<>>)
      [] text = BodyNull -> PyNone
      [] text = BodyWithUrl -> PyDict([url |-> PyStr(<<SLASH>> \o Calls \o <<SLASH, 120>>)])
      [] text = BodyNullTranscript -> PyDict([transcript |-> PyNone])

----------------------------------------------------------------------------
(* do_POST and the pipeline                                                 *)

PipelineVars == {"GOOGLE_GEMINI_API_KEY", "AIRTABLE_API_KEY", "AIRTABLE_BASE_ID"}

\* /tmp/.tmp/transcript_{recording_id}.json and /tmp/.tmp/summary_{recording_id}.json
\* a slip: the path of the transcript stamped with the second of the delivery
TranscriptPath_Stamped(recording_id) ==
    <<"transcript", recording_id \o <<DOT>> \o IntToStr(now)>>

TranscriptPath(recording_id) == <<"transcript", recording_id>>

SummaryPath(recording_id) == <<"summary", recording_id>>

\* self._json(code, body): one response written
Respond(code) ==
    /\ response' = Append(response, code)
    /\ pc' = "done"

\* an exception no handler of do_POST catches
Escape(exc) ==
    /\ escaped' = exc
    /\ pc' = "escaped"

\* how a subprocess.run call can end: exit status 0, a non-zero exit
\* status, the 270 s timeout, or a failure to start the process
StageOutcomes == {"exit0", "nonzero", "timeout", "oserror"}

\* a slip: a timeout answered like any other failure
StageFailureStatus_Generic(outcome) == 500

\* the response run_pipeline's caller gives to a stage that did not exit 0
StageFailureStatus(outcome) == IF outcome = "timeout" THEN 504 ELSE 500

\* a slip: a credential that is set but empty passes
PipelineConfigured_SetOnly(env) == \A var \in PipelineVars : var \in DOMAIN env

\* `for var in (...): if not env.get(var): raise EnvironmentError`
PipelineConfigured(env) == \A var \in PipelineVars : Get(env, var) # <<>>

\* lines 255-259: Content-Length, the empty-body check, the read
ReadBody ==
    /\ pc = "do_POST"
    /\ LET cl == IF "Content-Length" \in DOMAIN headers
                 THEN headers["Content-Length"] ELSE <<48>>
       IN IF ~IntParses(cl)
          THEN Escape("ValueError") /\ UNCHANGED <<response, raw_body>>
          ELSE IF IntValue(cl) = 0
          THEN Respond(400) /\ UNCHANGED <<escaped, raw_body>>
          ELSE /\ raw_body' = Take(rfile, IF IntValue(cl) < Len(rfile)
                                          THEN IntValue(cl) ELSE Len(rfile))
               /\ pc' = "verify"
               /\ UNCHANGED <<response, escaped>>
    /\ UNCHANGED <<environ, now, headers, vresult, payload, nresult, files,
                   stages, rfile>>
    /\ UNCHANGED <<store, written>>
    /\ UNCHANGED <<argv, tasks>>

\* a slip: the request carried on whatever verify_signature returned
VerifyRequest_Ungated ==
    /\ pc = "verify"
    /\ LET sig_headers == [k \in HeaderNames |-> Get(headers, k)]
           r == verify_signature(raw_body, sig_headers, environ, now)
       IN /\ vresult' = r
          /\ IF r.kind = "raise"
             THEN Escape(r.diag) /\ UNCHANGED response
             ELSE pc' = "parse" /\ UNCHANGED <<response, escaped>>
    /\ UNCHANGED <<environ, now, headers, raw_body, payload, nresult, files,
                   stages, rfile, store, written>>
    /\ UNCHANGED <<argv, tasks>>

\* lines 261-269: verify_signature on the three headers, 401 when false
VerifyRequest ==
    /\ pc = "verify"
    /\ LET sig_headers == [k \in HeaderNames |-> Get(headers, k)]
           r == verify_signature(raw_body, sig_headers, environ, now)
       IN /\ vresult' = r
          /\ IF r.kind = "raise"
             THEN Escape(r.diag) /\ UNCHANGED response
             ELSE IF ~r.value
             THEN Respond(401) /\ UNCHANGED escaped
             ELSE pc' = "parse" /\ UNCHANGED <<response, escaped>>
    /\ UNCHANGED <<environ, now, headers, raw_body, payload, nresult, files,
                   stages, rfile>>
    /\ UNCHANGED <<store, written>>
    /\ UNCHANGED <<argv, tasks>>

\* lines 271-277: json.loads(raw_body.decode("utf-8")), 400 when malformed
ParseJson ==
    /\ pc = "parse"
    /\ IF ~Utf8Valid(raw_body)
       THEN Escape("UnicodeDecodeError") /\ UNCHANGED <<response, payload>>
       ELSE IF ~JsonParses(Utf8Decode(raw_body))
       THEN Respond(400) /\ UNCHANGED <<escaped, payload>>
       ELSE /\ payload' = JsonLoads(Utf8Decode(raw_body))
            /\ pc' = "normalize"
            /\ UNCHANGED <<response, escaped>>
    /\ UNCHANGED <<environ, now, headers, raw_body, vresult, nresult, files,
                   stages, rfile>>
    /\ UNCHANGED <<store, written>>
    /\ UNCHANGED <<argv, tasks>>

\* lines 279-281: normalize_payload, outside any try
NormalizeRequest ==
    /\ pc = "normalize"
    /\ LET r == normalize_payload(payload, now)
       IN /\ nresult' = r
          /\ IF r.kind = "raise"
             THEN Escape(r.diag)
             ELSE pc' = "write" /\ UNCHANGED escaped
    /\ UNCHANGED <<environ, now, headers, raw_body, vresult, payload, response,
                   files, stages, rfile>>
    /\ UNCHANGED <<store, written>>
    /\ UNCHANGED <<argv, tasks>>

\* lines 283-295: mkdir (outside the try), then open and json.dump (inside)
WriteTranscript ==
    /\ pc = "write"
    /\ LET path == TranscriptPath(nresult.value.recording_id)
       IN \E outcome \in {"ok", "mkdir_fails", "open_fails", "dump_fails"} :
            CASE outcome = "mkdir_fails" ->
                   Escape("OSError") /\ UNCHANGED <<response, files>>
              [] outcome = "open_fails" ->
                   Respond(500) /\ UNCHANGED <<escaped, files>>
              [] outcome = "dump_fails" ->
                   /\ files' = (path :> [partial |-> TRUE, content |-> nresult.value.normalized]) @@ files
                   /\ Respond(500) /\ UNCHANGED escaped
              [] OTHER ->
                   /\ files' = (path :> [partial |-> FALSE, content |-> nresult.value.normalized]) @@ files
                   /\ pc' = "run_pipeline"
                   /\ UNCHANGED <<response, escaped>>
    /\ UNCHANGED <<environ, now, headers, raw_body, vresult, payload, nresult,
                   stages, rfile>>
    /\ UNCHANGED <<store, written>>
    /\ UNCHANGED <<argv, tasks>>

\* lines 210-215 and 301-304: the fail-fast configuration check
CheckEnvironment ==
    /\ pc = "run_pipeline"
    /\ IF PipelineConfigured(environ)
       THEN pc' = "summarize" /\ UNCHANGED response
       ELSE Respond(500)
    /\ UNCHANGED <<environ, now, headers, raw_body, vresult, payload, nresult,
                   files, stages, rfile, escaped>>
    /\ UNCHANGED <<store, written>>
    /\ UNCHANGED <<argv, tasks>>

\* lines 188-200: subprocess.run returns a result, whose captured stdout
\* and stderr run_step then prints, only when the process ran to its end;
\* on the timeout, or when the process cannot be started, subprocess.run
\* raises and lines 197-200 are not reached
OutputForwarded(outcome) == outcome \in {"exit0", "nonzero"}

\* the record kept of one subprocess.run call
StageRun(label, outcome) ==
    [label |-> label, outcome |-> outcome, forwarded |-> OutputForwarded(outcome)]

\* a slip: the exit status of the stage not looked at
RunStep_IgnoresExit(label, outcome, next) ==
    /\ stages' = Append(stages, StageRun(label, outcome))
    /\ pc' = next
    /\ UNCHANGED response

\* a slip: a stage that failed run once more before the failure is reported
RunStep_RetriesOnce(label, outcome, next) ==
    /\ stages' = Append(stages, StageRun(label, outcome))
    /\ IF outcome = "exit0"
       THEN pc' = next /\ UNCHANGED response
       ELSE IF stages = <<>> \/ stages[Len(stages)].outcome = "exit0"
       THEN UNCHANGED <<pc, response>>
       ELSE Respond(StageFailureStatus(outcome))

\* run_step: one subprocess.run with its outcome; the handlers of do_POST
\* turn every outcome but exit status 0 into a response
RunStep(label, outcome, next) ==
    /\ stages' = Append(stages, StageRun(label, outcome))
    /\ IF outcome = "exit0"
       THEN pc' = next /\ UNCHANGED response
       ELSE Respond(StageFailureStatus(outcome))

\* summarize_with_gemini.py line 416: the tool takes the identifier from
\* the name of the transcript file, dropping every "transcript_" in its stem
StemRecordingId(recording_id) == RemoveAll(recording_id, TranscriptPrefix)

\* lines 219-224: the summarization stage.  Whether summary_{id}.json is at
\* the path run_pipeline expects afterwards is not fixed by the exit
\* status: the tool derives the identifier from the file name on its own,
\* and may fail after saving
Summarize ==
    /\ pc = "summarize"
    /\ \E outcome \in StageOutcomes, wrote \in BOOLEAN :
         /\ RunStep("summarize_with_gemini", outcome, "check_summary")
         /\ LET path == SummaryPath(StemRecordingId(nresult.value.recording_id))
            IN IF wrote /\ outcome # "oserror"
               THEN /\ files' = (path :> [partial |-> FALSE, content |-> NoValue]) @@ files
                    /\ written' = written \cup {path}
               ELSE UNCHANGED <<files, written>>
    /\ UNCHANGED <<environ, now, headers, raw_body, vresult, payload, nresult,
                   rfile, escaped, store>>
    /\ UNCHANGED <<argv, tasks>>

\* a slip: the existence check left out
CheckSummary_Skipped ==
    /\ pc = "check_summary"
    /\ pc' = "log"
    /\ UNCHANGED <<environ, now, headers, raw_body, vresult, payload, nresult,
                   response, files, stages, rfile, escaped>>
    /\ UNCHANGED <<store, written>>
    /\ UNCHANGED <<argv, tasks>>

\* lines 226-228 and 305-308: the summary artifact must exist
CheckSummary ==
    /\ pc = "check_summary"
    /\ IF SummaryPath(nresult.value.recording_id) \in DOMAIN files
       THEN pc' = "log" /\ UNCHANGED response
       ELSE Respond(500)
    /\ UNCHANGED <<environ, now, headers, raw_body, vresult, payload, nresult,
                   files, stages, rfile, escaped>>
    /\ UNCHANGED <<store, written>>
    /\ UNCHANGED <<argv, tasks>>

\* a slip: a failed persistence stage followed by removal of the summary
LogToAirtable_RollsBack ==
    /\ pc = "log"
    /\ \E outcome \in StageOutcomes :
         /\ RunStep("log_to_airtable", outcome, "respond")
         /\ files' = IF outcome = "exit0" THEN files
                     ELSE [p \in DOMAIN files \ {SummaryPath(nresult.value.recording_id)} |->
                             files[p]]
    /\ UNCHANGED <<environ, now, headers, raw_body, vresult, payload, nresult,
                   rfile, escaped, store, written>>
    /\ UNCHANGED <<argv, tasks>>

\* log_to_airtable.py lines 452-484: the tool creates one meeting record,
\* whatever the store already holds, and returns 0 only after that; it can
\* fail or be stopped by the timeout before or after the record is created
MeetingCreated(outcome) ==
    CASE outcome = "exit0" -> {TRUE}
      [] outcome = "oserror" -> {FALSE}
      [] OTHER -> BOOLEAN

\* lines 230-236: the persistence stage
LogToAirtable ==
    /\ pc = "log"
    /\ \E outcome \in StageOutcomes :
         /\ RunStep("log_to_airtable", outcome, "respond")
         /\ \E created \in MeetingCreated(outcome) :
              store' = IF created
                       THEN Append(store, [recording_id |-> nresult.value.recording_id])
                       ELSE store
    /\ UNCHANGED <<environ, now, headers, raw_body, vresult, payload, nresult,
                   files, rfile, escaped, written>>
    /\ UNCHANGED <<argv, tasks>>

\* lines 324-329: 200 on full success
RespondOk ==
    /\ pc = "respond"
    /\ Respond(200)
    /\ UNCHANGED <<environ, now, headers, raw_body, vresult, payload, nresult,
                   files, stages, rfile, escaped>>
    /\ UNCHANGED <<store, written>>
    /\ UNCHANGED <<argv, tasks>>

\* the sender delivers the identical request again after a delivery that
\* did not end in 200: do_POST starts afresh on the same headers and body,
\* with the environment and the temporary area as the last delivery left
\* them, the clock the same second or a later one
Redeliver ==
    /\ pc \in {"done", "escaped"}
    /\ response # <<200>>
    /\ Len(store) < MaxMeetingRecords
    /\ \E d \in 0..1 :
         /\ now + d <= BaseTime + MaxClockAdvance
         /\ now' = now + d
    /\ pc' = "do_POST"
    /\ raw_body' = <<>>
    /\ vresult' = NotCalled
    /\ payload' = NoValue
    /\ nresult' = NotCalled
    /\ response' = <<>>
    /\ stages' = <<>>
    /\ escaped' = ""
    /\ written' = {}
    /\ UNCHANGED <<environ, headers, files, rfile, store>>
    /\ UNCHANGED <<argv, tasks>>

\* the requests drawn for do_POST
PostBodies ==
    Bodies \cup {BodyEmptyObject, BodyEmptyArray, BodyNull, BodyWithUrl, BodyNullTranscript}

\* the secret and all pipeline credentials, all but one credential, one
\* credential set but empty, or the credentials without the secret
PostEnvironments ==
    { [k \in {"FATHOM_WEBHOOK_SECRET"} \cup present |->
          IF k = "FATHOM_WEBHOOK_SECRET" THEN SecretPrefix \o CurrentKeyB64 ELSE <<107>>] :
        present \in {PipelineVars} \cup {PipelineVars \ {v} : v \in PipelineVars} }
    \cup { [k \in {"FATHOM_WEBHOOK_SECRET"} \cup PipelineVars |->
               IF k = "FATHOM_WEBHOOK_SECRET" THEN SecretPrefix \o CurrentKeyB64
               ELSE IF k = v THEN <<>> ELSE <<107>>] : v \in PipelineVars }
    \cup { [k \in PipelineVars |-> <<107>>] }

\* Content-Length: the length of the body, one less, zero, or not a number
ContentLengths(body) ==
    { IntToStr(Len(body)), <<48>>, <<120>> }
    \cup (IF Len(body) > 1 THEN {IntToStr(Len(body) - 1)} ELSE {})

PostSignatures(id, ts, body) ==
    { V1Entry(SenderSignature(CurrentKey, id, ts, body)),
      V1Entry(SenderSignature(RetiredKey, id, ts, body)),
      V1Entry(<<233>>) }

Init ==
    /\ pc = "do_POST"
    /\ now = BaseTime
    /\ environ \in PostEnvironments
    /\ rfile \in PostBodies
    /\ \E ts \in {IntToStr(BaseTime), IntToStr(BaseTime - TIMESTAMP_TOLERANCE - 1)} :
         \E sig \in PostSignatures(<<109>>, ts, rfile) :
            \/ headers = HeaderMap(HeaderNames, <<109>>, ts, sig)
            \/ \E cl \in ContentLengths(rfile) :
                 headers = ("Content-Length" :> cl) @@ HeaderMap(HeaderNames, <<109>>, ts, sig)
            \/ \E cl \in ContentLengths(rfile) :
                 headers = ("Content-Length" :> cl) @@ HeaderMap({"webhook-id"}, <<109>>, ts, sig)
    /\ raw_body = <<>>
    /\ vresult = NotCalled
    /\ payload = NoValue
    /\ nresult = NotCalled
    /\ response = <<>>
    /\ files = <<>>
    /\ stages = <<>>
    /\ escaped = ""
    /\ store = <<>>
    /\ written = {}
    /\ argv = <<>>
    /\ tasks = <<>>

Next ==
    \/ ReadBody
    \/ VerifyRequest
    \/ ParseJson
    \/ NormalizeRequest
    \/ WriteTranscript
    \/ CheckEnvironment
    \/ Summarize
    \/ CheckSummary
    \/ LogToAirtable
    \/ RespondOk
    \/ Redeliver

Spec == Init /\ [][Next]_vars

----------------------------------------------------------------------------
(* Claims about verify_signature                                            *)

Secret == Get(environ, "FATHOM_WEBHOOK_SECRET")

MsgId == Get(headers, "webhook-id")

MsgTimestamp == Get(headers, "webhook-timestamp")

MsgSignature == Get(headers, "webhook-signature")

VerifyCalled == vresult.kind # "none"

Accepted == vresult.kind = "return" /\ vresult.value = TRUE

Rejected == vresult.kind = "return" /\ vresult.value = FALSE

\* the configured secret decodes to a key
SecretUsable == Secret # <<>> /\ B64DecodeOk(RemovePrefix(Secret, SecretPrefix))

ConfiguredKey == B64Decode(RemovePrefix(Secret, SecretPrefix))

\* identifier present and timestamp an integer inside the window
InTolerance ==
    /\ MsgId # <<>>
    /\ IntParses(MsgTimestamp)
    /\ Abs(now - IntValue(MsgTimestamp)) <= 300

\* the v1 entry a sender holding the configured key computes for this request
ValidEntry == V1Entry(SenderSignature(ConfiguredKey, MsgId, MsgTimestamp, raw_body))

\* the header is the signature of a delivery one byte away from this one
CarriesOldSignature ==
    \E n \in OneByteNeighbours(MsgId, MsgTimestamp, raw_body) :
        MsgSignature = V1Entry(SenderSignature(ConfiguredKey, n[1], n[2], n[3]))

\* C3: verify_signature never raises: whatever the body (valid UTF-8 or
\* not), the headers and the secret, the call returns true or false.
C3_NeverRaises == VerifyCalled => vresult.kind = "return"

\* C4: for every identifier, in-tolerance timestamp, secret and body, the
\* call returns true when the header carries the v1 signature of
\* identifier.timestamp.body, and returns false when it carries the
\* signature of a delivery that differs in one byte of the body, the
\* identifier or the timestamp.
C4_SignatureDecides ==
    (VerifyCalled /\ SecretUsable /\ InTolerance) =>
        /\ (MsgSignature = ValidEntry => Accepted)
        /\ (CarriesOldSignature => Rejected)

\* C4 for bodies that are valid UTF-8 text: the part of C4 the code keeps.
C4_HoldsForTextBodies == Utf8Valid(raw_body) => C4_SignatureDecides

\* C5: the freshness check passes exactly when |now - timestamp| <= 300:
\* beyond 300 seconds, past or future, the call returns false whatever the
\* signature, and at exactly 300 a correctly signed request is accepted.
C5_FreshnessInclusive ==
    (VerifyCalled /\ Secret # <<>>
        /\ HeadersPresent(MsgId, MsgTimestamp, MsgSignature)
        /\ IntParses(MsgTimestamp)) =>
        LET d == Abs(now - IntValue(MsgTimestamp))
        IN /\ (vresult = Returned(FALSE, "Timestamp outside tolerance")) <=> (d > 300)
           /\ (d > 300 => Rejected)
           /\ (d = 300 /\ SecretUsable /\ Utf8Valid(raw_body)
                 /\ MsgSignature = ValidEntry => Accepted)

\* a correctly signed request exactly 300 seconds old (or ahead) was accepted
C5_Witness ==
    /\ VerifyCalled /\ IntParses(MsgTimestamp)
    /\ Abs(now - IntValue(MsgTimestamp)) = 300
    /\ MsgSignature = ValidEntry
    /\ Accepted

\* C6: secret rotation: the call returns true as soon as any one v1 entry
\* of the space-separated header equals the digest, whatever its position
\* and whatever the other entries hold (stated for bodies that decode, for
\* which the digest is computed).
C6_AnyValidEntryAccepts ==
    (VerifyCalled /\ SecretUsable /\ InTolerance /\ Utf8Valid(raw_body)
        /\ \E i \in 1..Len(Split(MsgSignature, SPACE)) :
              Split(MsgSignature, SPACE)[i] = ValidEntry)
    => Accepted

\* C7: fail closed on missing inputs: the call returns false whenever the
\* secret is unset or empty, or one of the three headers is absent or
\* empty, or the timestamp is not an integer, whatever the other inputs.
C7_FailsClosed ==
    (VerifyCalled /\ (\/ "FATHOM_WEBHOOK_SECRET" \notin DOMAIN environ
                      \/ Secret = <<>>
                      \/ \E k \in HeaderNames : k \notin DOMAIN headers \/ headers[k] = <<>>
                      \/ ~IntParses(MsgTimestamp)))
    => Rejected

\* a call with a configured secret, a fresh timestamp and a valid signature
\* for the empty identifier was rejected for its missing webhook-id
C7_Witness ==
    /\ VerifyCalled
    /\ SecretUsable
    /\ MsgId = <<>>
    /\ MsgTimestamp \in FreshTimestamps
    /\ MsgSignature = ValidEntry
    /\ vresult = Returned(FALSE, "Missing required signature headers")

\* C8: entries are split on the first comma and only entries tagged exactly
\* v1 are compared: the call returns true only if some entry is v1 followed
\* by the digest, and returns false when no v1 entry matches (stated for
\* bodies that decode, for which the digest is computed).
C8_OnlyV1Compared ==
    (VerifyCalled /\ SecretUsable /\ InTolerance /\ Utf8Valid(raw_body)
        /\ MsgSignature # <<>>) =>
        LET entries == Split(MsgSignature, SPACE)
            matches == \E i \in 1..Len(entries) : entries[i] = ValidEntry
        IN /\ (Accepted => matches)
           /\ (~matches => Rejected)

----------------------------------------------------------------------------
(* Inputs drawn for normalize_payload                                       *)

NameA == PyStr(<<65>>)

NameB == PyStr(<<66>>)

\* transcript segments: structured and bare speakers, missing and null
\* fields, an unhashable display name, and a segment that is not an object
Segments ==
    { EmptyDict,
      PyDict([speaker |-> PyDict([display_name |-> NameA]), text |-> PyStr(<<104, 105>>)]),
      PyDict([speaker |-> PyDict([display_name |-> NameB])]),
      PyDict([speaker |-> NameA]),
      PyDict([speaker |-> PyDict([display_name |-> PyNone])]),
      PyDict([speaker |-> PyDict([display_name |-> PyList(<<NameA>>)])]),
      PyDict([speaker |-> PyNone]),
      PyNone }

\* values of the transcript field: lists of segments and values of other types
Transcripts ==
    { PyList(items) : items \in SeqUpTo(Segments, MaxSegments) }
    \cup { PyNone, PyInt(5), PyStr(<<>>), PyStr(<<97, 98>>), EmptyDict,
           PyDict([a |-> PyInt(1)]) }

\* the other fields of the event: absent, well-formed, or of another type
Envelopes ==
    { <<>>,
      [url |-> PyStr(<<SLASH>> \o Calls \o <<SLASH, 120>>),
       meeting_title |-> PyStr(<<84>>), created_at |-> PyStr(<<68>>)],
      [url |-> PyStr(<<SLASH, SLASH, 104, SLASH>> \o Recordings \o <<SLASH, 114, 49>>)],
      [url |-> PyStr(<<SLASH, 120, SLASH, 121>>), meeting_title |-> PyNone],
      [url |-> PyInt(5)] }

\* the record e extended with field transcript
WithTranscript(e, tr) ==
    [k \in DOMAIN e \cup {"transcript"} |-> IF k = "transcript" THEN tr ELSE e[k]]

\* every value json.loads can hand to normalize_payload, within the bounds
Payloads ==
    { PyDict(e) : e \in Envelopes }
    \cup { PyDict(WithTranscript(e, tr)) : e \in Envelopes, tr \in Transcripts }
    \cup { PyList(<<>>), PyNone, PyInt(1), PyStr(<<115>>) }

InitNormalize ==
    /\ pc = "normalize_payload"
    /\ now = BaseTime
    /\ payload \in Payloads
    /\ environ = <<>>
    /\ headers = <<>>
    /\ raw_body = <<>>
    /\ vresult = NotCalled
    /\ nresult = NotCalled
    /\ response = <<>>
    /\ files = <<>>
    /\ stages = <<>>
    /\ rfile = <<>>
    /\ escaped = ""
    /\ store = <<>>
    /\ written = {}
    /\ argv = <<>>
    /\ tasks = <<>>

\* one call of normalize_payload(payload)
CallNormalize ==
    /\ pc = "normalize_payload"
    /\ nresult' = normalize_payload(payload, now)
    /\ pc' = "returned"
    /\ UNCHANGED <<environ, now, headers, raw_body, vresult, payload, response,
                   files, stages, rfile, escaped>>
    /\ UNCHANGED <<store, written>>
    /\ UNCHANGED <<argv, tasks>>

NextNormalize == CallNormalize

SpecNormalize == InitNormalize /\ [][NextNormalize]_vars

----------------------------------------------------------------------------
(* Claims about normalize_payload                                           *)

NormalizeCalled == nresult.kind # "none"

NormalizeReturned == nresult.kind = "return"

\* C9: normalize_payload never fails: for every value json.loads can
\* produce it returns a (normalized, recording_id) pair, with the defaults
\* 'Untitled Meeting', empty date, no participants and no segments for the
\* fields the payload lacks.
C9_NormalizeNeverFails ==
    NormalizeCalled =>
        /\ NormalizeReturned
        /\ (payload.t # "dict" \/ "meeting_title" \notin DOMAIN payload.v
              => nresult.value.normalized.title = PyStr(UntitledMeeting))
        /\ (payload.t # "dict" \/ "created_at" \notin DOMAIN payload.v
              => nresult.value.normalized.date = PyStr(<<>>))
        /\ (payload.t # "dict" \/ "transcript" \notin DOMAIN payload.v
              => /\ nresult.value.normalized.participants = <<>>
                 /\ nresult.value.normalized.transcript = PyList(<<>>))

\* the display name of a segment: the display_name of a structured speaker
\* ("Unknown" when the segment or the speaker lacks it), the text of a bare
\* speaker
DisplayName(seg) ==
    IF "speaker" \notin DOMAIN seg.v THEN PyStr(UnknownName)
    ELSE IF seg.v["speaker"].t = "dict"
         THEN IF "display_name" \in DOMAIN seg.v["speaker"].v
              THEN seg.v["speaker"].v["display_name"] ELSE PyStr(UnknownName)
    ELSE PyStr(PyStrOf(seg.v["speaker"]))

\* the segments of the payload handed to normalize_payload
PayloadSegments ==
    IF "transcript" \in DOMAIN payload.v /\ payload.v["transcript"].t = "list"
    THEN payload.v["transcript"].v ELSE <<>>

\* index of the first segment whose display name is n
FirstSpoken(n) ==
    CHOOSE i \in 1..Len(PayloadSegments) :
        /\ DisplayName(PayloadSegments[i]) = n
        /\ \A j \in 1..(i - 1) : DisplayName(PayloadSegments[j]) # n

\* C10: the participants returned are exactly the order-preserving,
\* duplicate-free projection of the segments' display names (each name
\* once, at the position of its first occurrence, a bare-string speaker
\* contributing its text), and the segments are returned unchanged.
C10_ParticipantsProjection ==
    NormalizeReturned =>
        LET parts == nresult.value.normalized.participants
            segs == PayloadSegments
        IN /\ \A i, j \in 1..Len(parts) : parts[i] = parts[j] => i = j
           /\ {parts[i] : i \in 1..Len(parts)} = {DisplayName(segs[k]) : k \in 1..Len(segs)}
           /\ \A i, j \in 1..Len(parts) : i < j => FirstSpoken(parts[i]) < FirstSpoken(parts[j])
           /\ nresult.value.normalized.transcript
                = (IF "transcript" \in DOMAIN payload.v
                   THEN payload.v["transcript"] ELSE PyList(<<>>))

\* speakers A (structured), B (structured), A (bare string) gave [A, B]
C10_Witness ==
    /\ NormalizeReturned
    /\ Len(PayloadSegments) = 3
    /\ PayloadSegments[1] = PyDict([speaker |-> PyDict([display_name |-> NameA]), text |-> PyStr(<<104, 105>>)])
    /\ PayloadSegments[2] = PyDict([speaker |-> PyDict([display_name |-> NameB])])
    /\ PayloadSegments[3] = PyDict([speaker |-> NameA])
    /\ nresult.value.normalized.participants = <<NameA, NameB>>
    /\ nresult.value.normalized.transcript.v = PayloadSegments

----------------------------------------------------------------------------
(* Claims about do_POST                                                     *)

\* do_POST has ended: it returned after a response, or an exception left it
RequestEnded == pc \in {"done", "escaped"}

\* the statuses do_POST maps failures to
FailureStatuses == {400, 401, 500, 504}

\* C1: every POST request, whatever its headers and body, ends with exactly
\* one response whose status is 200, 400, 401, 500 or 504: no failure of a
\* step of do_POST escapes the handler unmapped.
C1_EveryRequestAnswered ==
    RequestEnded =>
        /\ pc = "done"
        /\ Len(response) = 1
        /\ response[1] \in {200} \cup FailureStatuses

\* what a 200 rests on: signature verified, body parsed, transcript
\* written, both stages exited 0 in order, summary artifact present
FullSuccess ==
    /\ Accepted
    /\ payload.t # "unset"
    /\ NormalizeReturned
    /\ TranscriptPath(nresult.value.recording_id) \in DOMAIN files
    /\ SummaryPath(nresult.value.recording_id) \in DOMAIN files
    /\ stages = << StageRun("summarize_with_gemini", "exit0"),
                   StageRun("log_to_airtable", "exit0") >>

\* C2: a request is answered 200 only if its signature verified, its body
\* parsed, the transcript was written, summarization exited 0 with its
\* artifact present and persistence exited 0; every other exit of the
\* request is a 4xx/5xx response.
C2_SuccessOnlyOnFullPipeline ==
    RequestEnded =>
        IF response = <<200>> THEN FullSuccess
        ELSE Len(response) = 1 /\ response[1] \in FailureStatuses

\* the first half of C2 alone: 200 only on full success
C2_OkOnlyIfFullSuccess ==
    (Len(response) > 0 /\ response[Len(response)] = 200) => FullSuccess

----------------------------------------------------------------------------
(* Inputs drawn for extract_recording_id                                    *)

\* the longest path, in components, of a URL drawn
MaxPathLen == 3

\* what precedes the path: nothing, "https://h", "//h", and "http://[x"
\* (a host with an opening bracket only)
UrlPrefixes ==
    { <<>>,
      <<104, 116, 116, 112, 115, 58, SLASH, SLASH, 104>>,
      <<SLASH, SLASH, 104>>,
      <<104, 116, 116, 112, 58, SLASH, SLASH, 91, 120>> }

\* path components: "recordings", "calls", "x" and the empty component
UrlComponents == { Recordings, Calls, <<120>>, <<>> }

\* what follows the path: nothing, "/", "?/calls/q", "#/calls/f"
UrlSuffixes ==
    { <<>>,
      <<SLASH>>,
      <<63, SLASH>> \o Calls \o <<SLASH, 113>>,
      <<35, SLASH>> \o Calls \o <<SLASH, 102>> }

Urls ==
    { prefix \o (IF cs = <<>> THEN <<>> ELSE <<SLASH>> \o Join(cs, SLASH)) \o suffix :
        prefix \in UrlPrefixes, cs \in SeqUpTo(UrlComponents, MaxPathLen),
        suffix \in UrlSuffixes }

\* payloads: the url field absent, a URL, null, a number, and a payload
\* that is not an object
ExtractPayloads ==
    { PyDict([url |-> PyStr(u)]) : u \in Urls }
    \cup { EmptyDict, PyDict([url |-> PyNone]), PyDict([url |-> PyInt(0)]),
           PyDict([url |-> PyInt(5)]), PyList(<<>>) }

InitExtract ==
    /\ pc = "extract_recording_id"
    /\ now = BaseTime
    /\ payload \in ExtractPayloads
    /\ environ = <<>>
    /\ headers = <<>>
    /\ raw_body = <<>>
    /\ vresult = NotCalled
    /\ nresult = NotCalled
    /\ response = <<>>
    /\ files = <<>>
    /\ stages = <<>>
    /\ rfile = <<>>
    /\ escaped = ""
    /\ store = <<>>
    /\ written = {}
    /\ argv = <<>>
    /\ tasks = <<>>

\* one call of extract_recording_id(payload); its outcome is kept in nresult
CallExtract ==
    /\ pc = "extract_recording_id"
    /\ nresult' = extract_recording_id(payload, now)
    /\ pc' = "extracted"
    /\ UNCHANGED <<environ, now, headers, raw_body, vresult, payload, response,
                   files, stages, rfile, escaped>>
    /\ UNCHANGED <<store, written>>
    /\ UNCHANGED <<argv, tasks>>

NextExtract == CallExtract

SpecExtract == InitExtract /\ [][NextExtract]_vars

----------------------------------------------------------------------------
(* Claims about extract_recording_id                                        *)

ExtractCalled == pc = "extracted"

\* the payload is an object whose url is a string
HasUrlText == payload.t = "dict" /\ DictGet(payload, "url", PyNone).t = "str"

\* the components of the URL's path, slashes at both ends dropped
PathComponents == Split(StripChar(UrlPath(payload.v["url"].v), SLASH), SLASH)

\* the last component is not empty and follows `recordings` or `calls`
TrailingSegmentFollowsMarker ==
    /\ HasUrlText
    /\ Len(PathComponents) >= 2
    /\ PathComponents[Len(PathComponents) - 1] \in {Recordings, Calls}
    /\ PathComponents[Len(PathComponents)] # <<>>

\* what the claim says the call gives
ClaimedRecordingId ==
    IF TrailingSegmentFollowsMarker
    THEN PathComponents[Len(PathComponents)]
    ELSE IntToStr(now)

\* C11: extract_recording_id returns the trailing path segment of the
\* payload URL whenever that segment follows a `recordings` or `calls`
\* component, and in every other case (URL absent, empty, or of another
\* shape) returns the current epoch time as a decimal string.
C11_RecordingIdOrEpoch ==
    (ExtractCalled /\ payload.t = "dict") =>
        /\ nresult.kind = "return"
        /\ nresult.value = ClaimedRecordingId

\* C11 on the calls that return: the value is the one the claim names
C11_HoldsWhenItReturns ==
    (ExtractCalled /\ nresult.kind = "return") => nresult.value = ClaimedRecordingId

----------------------------------------------------------------------------
(* Claims about redelivery and the temporary area                           *)

\* the transcript artifacts in the temporary area
TranscriptFiles == {p \in DOMAIN files : p[1] = "transcript"}

\* the summary artifacts in the temporary area
SummaryFiles == {p \in DOMAIN files : p[1] = "summary"}

\* the URL of the request's payload yields the identifier (no clock fallback)
UrlGivesId ==
    /\ payload.t = "dict"
    /\ DictGet(payload, "url", PyNone).t = "str"
    /\ IsRecordingPath(Split(StripChar(UrlPath(payload.v["url"].v), SLASH), SLASH))

\* C12 as stated: a redelivery of the identical request after a failure
\* leaves the same artifact content at the same transcript_{id}.json path,
\* for every payload: every transcript artifact in the temporary area after
\* a step is, in path and content, one that was there before it.
C12_SameArtifactSamePath ==
    [][\A p \in TranscriptFiles', q \in TranscriptFiles :
          /\ files'[p].content = files[q].content
          /\ p = q]_vars

\* C12, amended: every delivery of the identical request that writes the
\* transcript artifact writes the same content; it writes it at the same
\* path when the payload URL yields the identifier, while without a
\* parseable URL the path carries the second of the delivery.
C12_SameContentAndPathWhenUrlParses ==
    [][\A p \in TranscriptFiles', q \in TranscriptFiles :
          /\ files'[p].content = files[q].content
          /\ (UrlGivesId => p = q)]_vars

\* two deliveries of one request without a parseable URL, in different
\* seconds, have each written the artifact
C12_Witness ==
    /\ now > BaseTime
    /\ Cardinality(TranscriptFiles) = 2
    /\ \A p \in TranscriptFiles : ~files[p].partial

\* a redelivery of a request whose URL yields the identifier has written
\* the artifact again, over the one of a delivery that failed in its pipeline
C12_WitnessSamePath ==
    /\ now > BaseTime
    /\ pc = "run_pipeline"
    /\ UrlGivesId
    /\ SummaryFiles # {}
    /\ Cardinality(TranscriptFiles) = 1

----------------------------------------------------------------------------
(* Claims about run_pipeline                                                *)

\* a credential of the pipeline is unset or empty
CredentialMissing == \E var \in PipelineVars : Get(environ, var) = <<>>

\* control is inside one of the two stages or between them
InStages == pc \in {"summarize", "check_summary", "log", "respond"}

\* C13: if any of GOOGLE_GEMINI_API_KEY, AIRTABLE_API_KEY, AIRTABLE_BASE_ID
\* is unset or empty, run_pipeline fails before either stage is invoked (no
\* stage is ever run in the request, nothing is written) and the request
\* that reached run_pipeline is answered 500.
C13_FailFastConfiguration ==
    /\ [](CredentialMissing => (stages = <<>> /\ ~InStages /\ SummaryFiles = {}))
    /\ [][(pc = "run_pipeline" /\ CredentialMissing) =>
             (pc' = "done" /\ response' = <<500>> /\ stages' = <<>> /\ files' = files)]_vars

\* a first delivery with a credential missing wrote its transcript, entered
\* run_pipeline and was answered 500 with no stage run
C13_Witness ==
    /\ CredentialMissing
    /\ now = BaseTime
    /\ pc = "done"
    /\ response = <<500>>
    /\ Accepted
    /\ NormalizeReturned
    /\ TranscriptPath(nresult.value.recording_id) \in DOMAIN files
    /\ ~files[TranscriptPath(nresult.value.recording_id)].partial
    /\ stages = <<>>

\* the same with a credential that is set to the empty string
C13_WitnessEmptyCredential ==
    /\ C13_Witness
    /\ \E var \in PipelineVars : var \in DOMAIN environ /\ environ[var] = <<>>

\* the identifier of the request being served
RecordingId == nresult.value.recording_id

\* the stage runs of this request with the given label
RunsOf(label) == {i \in 1..Len(stages) : stages[i].label = label}

\* C14: the persistence stage is invoked only after the summarization
\* stage of the same request has completed with status 0; if summarization
\* exits non-zero the request is answered 500 and persistence is never
\* invoked in it.
C14_StagesOrdered ==
    /\ \A i \in RunsOf("log_to_airtable") :
          i > 1 /\ stages[i - 1] = StageRun("summarize_with_gemini", "exit0")
    /\ (stages # <<>> /\ stages[1].outcome = "nonzero") =>
          (pc = "done" /\ response = <<500>> /\ RunsOf("log_to_airtable") = {})

\* summarization exited non-zero and the request was answered 500
C14_Witness ==
    /\ stages = <<StageRun("summarize_with_gemini", "nonzero")>>
    /\ pc = "done"
    /\ response = <<500>>

\* persistence ran, after a summarization that exited 0
C14_WitnessBothRan ==
    /\ Len(stages) = 2
    /\ stages[2].label = "log_to_airtable"

\* summarization of this request exited 0 and summary_{id}.json is absent
SummaryMissingAfterSuccess ==
    /\ stages # <<>>
    /\ stages[1] = StageRun("summarize_with_gemini", "exit0")
    /\ SummaryPath(RecordingId) \notin DOMAIN files

\* C15: if the summarization stage exits 0 but summary_{id}.json does not
\* exist afterwards, run_pipeline fails: the persistence stage is not
\* invoked and the request is answered 500.
C15_MissingSummaryFails ==
    SummaryMissingAfterSuccess =>
        /\ Len(stages) = 1
        /\ pc \in {"check_summary", "done"}
        /\ (pc = "done" => response = <<500>>)

\* the request was answered 500 for the missing summary
C15_Witness ==
    /\ SummaryMissingAfterSuccess
    /\ pc = "done"
    /\ response = <<500>>

\* the last stage run of this request timed out
StageTimedOut == stages # <<>> /\ stages[Len(stages)].outcome = "timeout"

\* C16: the request is answered 504 when and only when a stage timed out,
\* and 500 when a stage exited non-zero; the two are never conflated.
C16_TimeoutDistinct ==
    pc = "done" =>
        /\ (response = <<504>> <=> StageTimedOut)
        /\ (stages # <<>> /\ stages[Len(stages)].outcome = "nonzero") => response = <<500>>

\* each stage, in some request, timed out and was answered 504
C16_Witness ==
    /\ pc = "done"
    /\ response = <<504>>
    /\ Len(stages) = 2
    /\ stages[2] = StageRun("log_to_airtable", "timeout")

\* C17: for every stage run, whether it exits 0, exits non-zero or times
\* out, the captured standard output and error are forwarded to the
\* operator channel before the outcome is decided and any failure raised.
C17_OutputAlwaysForwarded ==
    \A i \in 1..Len(stages) :
        stages[i].outcome \in {"exit0", "nonzero", "timeout"} => stages[i].forwarded

\* C17 for the stage runs that ran to their end (exit 0 or non-zero)
C17_ForwardedWhenStageCompletes ==
    \A i \in 1..Len(stages) :
        stages[i].outcome \in {"exit0", "nonzero"} => stages[i].forwarded

----------------------------------------------------------------------------
(* Claims about the order of do_POST's checks                               *)

\* the Content-Length header is absent or reads as the integer 0
EmptyBody ==
    \/ "Content-Length" \notin DOMAIN headers
    \/ IntParses(headers["Content-Length"]) /\ IntValue(headers["Content-Length"]) = 0

\* the three statements of C18 about a request that has ended
ChecksInOrder ==
    /\ EmptyBody => (response = <<400>> /\ ~VerifyCalled)
    /\ (~EmptyBody /\ ~Accepted) => response = <<401>>
    /\ (~EmptyBody /\ response = <<400>>) =>
          (Accepted /\ ~JsonParses(Utf8Decode(raw_body)))

\* C18: do_POST checks in the order empty body, signature, JSON parse,
\* normalization, artifact write, pipeline, and answers with the status of
\* the first check that fails: an empty body is answered 400 with no
\* signature check, a non-empty body whose signature does not verify is
\* answered 401 even when it is not JSON, and 400 for malformed JSON is
\* given only to requests whose signature verified.
C18_FirstFailingCheckAnswers == RequestEnded => ChecksInOrder

\* C18 for the requests that end with a response
C18_OrderWhenAnswered == pc = "done" => ChecksInOrder

\* a body that is not JSON, with a signature that does not verify, answered 401
C18_WitnessUnsignedNotJson ==
    /\ pc = "done"
    /\ response = <<401>>
    /\ Utf8Valid(raw_body)
    /\ ~JsonParses(Utf8Decode(raw_body))

----------------------------------------------------------------------------
(* Claims about the temporary area and retries                              *)

\* summarization exited 0 and persistence then failed, in this request
PersistenceFailedAfterSummary ==
    /\ Len(stages) = 2
    /\ stages[1] = StageRun("summarize_with_gemini", "exit0")
    /\ stages[2].label = "log_to_airtable"
    /\ stages[2].outcome # "exit0"

\* C19: the ingress path deletes nothing from the temporary area and rolls
\* nothing back: an artifact once written is on disk after every later
\* step, unchanged until a delivery writes it anew, and when summarization
\* succeeds and persistence then fails both transcript_{id}.json and
\* summary_{id}.json remain.
C19_NothingDeleted ==
    /\ [][\A p \in DOMAIN files :
             /\ p \in DOMAIN files'
             /\ (pc # "write" => files'[p] = files[p])]_vars
    /\ [](PersistenceFailedAfterSummary =>
             /\ TranscriptPath(RecordingId) \in DOMAIN files
             /\ SummaryPath(RecordingId) \in DOMAIN files)

\* persistence failed after a successful summarization, the request has
\* ended, and both artifacts are on disk
C19_Witness ==
    /\ PersistenceFailedAfterSummary
    /\ pc = "done"
    /\ response \in {<<500>>, <<504>>}
    /\ TranscriptPath(RecordingId) \in DOMAIN files
    /\ SummaryPath(RecordingId) \in DOMAIN files

\* C20: within one request each of the two stages is invoked at most once,
\* and a stage that failed or timed out is never invoked again: the request
\* ends with that run as its last; another attempt needs a new request.
C20_NoRetryWithinRequest ==
    /\ \A label \in {"summarize_with_gemini", "log_to_airtable"} :
          Cardinality(RunsOf(label)) <= 1
    /\ \A i \in 1..Len(stages) :
          stages[i].outcome # "exit0" =>
             (i = Len(stages) /\ pc = "done" /\ response \in {<<500>>, <<504>>})

\* a redelivered request whose summarization timed out has ended, the
\* stage run once
C20_Witness ==
    /\ now > BaseTime
    /\ pc = "done"
    /\ stages = <<StageRun("summarize_with_gemini", "timeout")>>
    /\ SummaryFiles # {}

----------------------------------------------------------------------------
(* Two deliveries served concurrently.  The hosting environment runs one   *)
(* do_POST per request; the requests share the temporary area, the store   *)
(* and the clock and nothing else.  Each request is taken up after its     *)
(* signature verified and its body parsed (lines 253-277 touch no shared   *)
(* state).  In this specification pc, payload, nresult, stages, response   *)
(* and written hold one value per request, and a file records the request  *)
(* that wrote it last.                                                      *)

Requests == {1, 2}

\* {"url": "/calls/x", "meeting_title": <title>}
PayloadCallX(title) ==
    PyDict([url |-> PyStr(<<SLASH>> \o Calls \o <<SLASH, 120>>), meeting_title |-> PyStr(title)])

\* {"url": "/calls/transcript_x", "meeting_title": <title>}
PayloadCallTranscriptX(title) ==
    PyDict([url |-> PyStr(<<SLASH>> \o Calls \o <<SLASH>> \o TranscriptPrefix \o <<120>>),
            meeting_title |-> PyStr(title)])

\* {"meeting_title": <title>}: no URL, the identifier is the epoch second
PayloadNoUrl(title) == PyDict([meeting_title |-> PyStr(title)])

\* the payloads request r can carry; its title is the digit of r
ConcurrentPayloads(r) ==
    { PayloadCallX(<<48 + r>>), PayloadCallTranscriptX(<<48 + r>>), PayloadNoUrl(<<48 + r>>) }

\* all credentials of the pipeline set
ConfiguredEnvironment ==
    [k \in {"FATHOM_WEBHOOK_SECRET"} \cup PipelineVars |->
        IF k = "FATHOM_WEBHOOK_SECRET" THEN SecretPrefix \o CurrentKeyB64 ELSE <<107>>]

InitConcurrent ==
    /\ pc = [r \in Requests |-> "normalize"]
    /\ now = BaseTime
    /\ environ = ConfiguredEnvironment
    /\ payload \in {f \in [Requests -> UNION {ConcurrentPayloads(r) : r \in Requests}] :
                      \A r \in Requests : f[r] \in ConcurrentPayloads(r)}
    /\ nresult = [r \in Requests |-> NotCalled]
    /\ response = [r \in Requests |-> <<>>]
    /\ stages = [r \in Requests |-> <<>>]
    /\ written = [r \in Requests |-> {}]
    /\ files = <<>>
    /\ store = <<>>
    /\ headers = <<>>
    /\ raw_body = <<>>
    /\ vresult = NotCalled
    /\ rfile = <<>>
    /\ escaped = ""
    /\ argv = <<>>
    /\ tasks = <<>>

\* the writers of the files at the given paths that exist
WritersOf(paths) == {files[p].writer : p \in paths \cap DOMAIN files}

\* one subprocess.run of request r: what it ran, how it ended, and whose
\* artifacts it read
StageRead(label, outcome, paths) ==
    [label |-> label, outcome |-> outcome, forwarded |-> OutputForwarded(outcome),
     read |-> WritersOf(paths)]

\* the clock reaches the next second
Tick ==
    /\ now < BaseTime + MaxClockAdvance
    /\ now' = now + 1
    /\ UNCHANGED <<pc, environ, headers, raw_body, vresult, payload, nresult,
                   response, files, stages, rfile, escaped, store, written>>
    /\ UNCHANGED <<argv, tasks>>

\* lines 279-281 for request r
NormalizeOf(r) ==
    /\ pc[r] = "normalize"
    /\ nresult' = [nresult EXCEPT ![r] = normalize_payload(payload[r], now)]
    /\ pc' = [pc EXCEPT ![r] = "write"]
    /\ UNCHANGED <<environ, now, headers, raw_body, vresult, payload, response,
                   files, stages, rfile, escaped, store, written>>
    /\ UNCHANGED <<argv, tasks>>

\* lines 283-295 for request r: open(transcript_path, "w") and json.dump,
\* with no lock held
WriteTranscriptOf(r) ==
    /\ pc[r] = "write"
    /\ files' = (TranscriptPath(nresult[r].value.recording_id) :>
                   [partial |-> FALSE, content |-> nresult[r].value.normalized,
                    writer |-> r]) @@ files
    /\ pc' = [pc EXCEPT ![r] = IF PipelineConfigured(environ) THEN "summarize" ELSE "done"]
    /\ response' = [response EXCEPT ![r] =
                      IF PipelineConfigured(environ) THEN @ ELSE Append(@, 500)]
    /\ UNCHANGED <<environ, now, headers, raw_body, vresult, payload, nresult,
                   stages, rfile, escaped, store, written>>
    /\ UNCHANGED <<argv, tasks>>

\* run_step for request r: the stage run kept, and the response to an
\* outcome other than exit status 0
RunStepOf(r, run, next) ==
    /\ stages' = [stages EXCEPT ![r] = Append(@, run)]
    /\ pc' = [pc EXCEPT ![r] = IF run.outcome = "exit0" THEN next ELSE "done"]
    /\ response' = [response EXCEPT ![r] =
                      IF run.outcome = "exit0" THEN @
                      ELSE Append(@, StageFailureStatus(run.outcome))]

\* lines 219-224 for request r: the summarizer reads the transcript at the
\* path it is given and saves the summary under the identifier it takes
\* from that path's stem
SummarizeOf(r) ==
    /\ pc[r] = "summarize"
    /\ \E outcome \in StageOutcomes, wrote \in BOOLEAN :
         LET id == nresult[r].value.recording_id
             path == SummaryPath(StemRecordingId(id))
             reads == IF outcome = "oserror" THEN {} ELSE {TranscriptPath(id)}
         IN /\ RunStepOf(r, StageRead("summarize_with_gemini", outcome, reads),
                         "check_summary")
            /\ IF wrote /\ outcome # "oserror"
               THEN /\ files' = (path :> [partial |-> FALSE, content |-> NoValue,
                                          writer |-> r]) @@ files
                    /\ written' = [written EXCEPT ![r] = @ \cup {path}]
               ELSE UNCHANGED <<files, written>>
    /\ UNCHANGED <<environ, now, headers, raw_body, vresult, payload, nresult,
                   rfile, escaped, store>>
    /\ UNCHANGED <<argv, tasks>>

\* lines 226-228 for request r
CheckSummaryOf(r) ==
    /\ pc[r] = "check_summary"
    /\ LET exists == SummaryPath(nresult[r].value.recording_id) \in DOMAIN files
       IN /\ pc' = [pc EXCEPT ![r] = IF exists THEN "log" ELSE "done"]
          /\ response' = [response EXCEPT ![r] = IF exists THEN @ ELSE Append(@, 500)]
    /\ UNCHANGED <<environ, now, headers, raw_body, vresult, payload, nresult,
                   files, stages, rfile, escaped, store, written>>
    /\ UNCHANGED <<argv, tasks>>

\* lines 230-236 for request r: the persistence tool reads the summary and
\* the transcript at the paths it is given
LogToAirtableOf(r) ==
    /\ pc[r] = "log"
    /\ \E outcome \in StageOutcomes :
         LET id == nresult[r].value.recording_id
             reads == IF outcome = "oserror" THEN {}
                      ELSE {SummaryPath(id), TranscriptPath(id)}
         IN /\ RunStepOf(r, StageRead("log_to_airtable", outcome, reads), "respond")
            /\ \E created \in MeetingCreated(outcome) :
                 store' = IF created THEN Append(store, [recording_id |-> id]) ELSE store
    /\ UNCHANGED <<environ, now, headers, raw_body, vresult, payload, nresult,
                   files, rfile, escaped, written>>
    /\ UNCHANGED <<argv, tasks>>

\* lines 324-329 for request r
RespondOkOf(r) ==
    /\ pc[r] = "respond"
    /\ pc' = [pc EXCEPT ![r] = "done"]
    /\ response' = [response EXCEPT ![r] = Append(@, 200)]
    /\ UNCHANGED <<environ, now, headers, raw_body, vresult, payload, nresult,
                   files, stages, rfile, escaped, store, written>>
    /\ UNCHANGED <<argv, tasks>>

NextConcurrent ==
    \/ Tick
    \/ \E r \in Requests : NormalizeOf(r)
    \/ \E r \in Requests : WriteTranscriptOf(r)
    \/ \E r \in Requests : SummarizeOf(r)
    \/ \E r \in Requests : CheckSummaryOf(r)
    \/ \E r \in Requests : LogToAirtableOf(r)
    \/ \E r \in Requests : RespondOkOf(r)

SpecConcurrent == InitConcurrent /\ [][NextConcurrent]_vars

----------------------------------------------------------------------------
(* Claims about concurrent deliveries                                       *)

\* the identifier request r resolved to
IdOf(r) == nresult[r].value.recording_id

Resolved(r) == nresult[r].kind = "return"

\* request r has a stage run that read an artifact another request wrote
ReadForeignArtifact(r) ==
    \E i \in 1..Len(stages[r]) : stages[r][i].read \ {r} # {}

\* the artifacts request r has written so far
ArtifactsOf(r) ==
    written[r] \cup (IF pc[r] \in {"normalize", "write"} THEN {}
                     ELSE {TranscriptPath(IdOf(r))})

\* an artifact request r wrote has since been written over by another request
OwnArtifactOverwritten(r) == \E p \in ArtifactsOf(r) : files[p].writer # r

\* C21, the part about different identifiers: two concurrent deliveries
\* that resolved to different recording identifiers never read and never
\* overwrite each other's artifacts.
C21_DifferentIdsIsolated ==
    (Resolved(1) /\ Resolved(2) /\ IdOf(1) # IdOf(2)) =>
        \A r \in Requests : ~ReadForeignArtifact(r) /\ ~OwnArtifactOverwritten(r)

\* C21, the part about the same identifier: an interleaving in which a
\* stage of one request read an artifact the other request wrote, both
\* having resolved to the same identifier from the URL
C21_SameIdRace ==
    /\ Resolved(1) /\ Resolved(2) /\ IdOf(1) = IdOf(2)
    /\ DictGet(payload[1], "url", PyNone) # PyNone
    /\ \E r \in Requests : ReadForeignArtifact(r)

\* the same for two deliveries without a URL within one epoch second
C21_SameSecondRace ==
    /\ Resolved(1) /\ Resolved(2) /\ IdOf(1) = IdOf(2)
    /\ DictGet(payload[1], "url", PyNone) = PyNone
    /\ \E r \in Requests : ReadForeignArtifact(r)

\* C21 for identifiers that the summarizer reads back from the file name
\* unchanged: such deliveries with different identifiers are isolated
C21_IsolatedWhenStemKeepsId ==
    (/\ Resolved(1) /\ Resolved(2) /\ IdOf(1) # IdOf(2)
     /\ \A r \in Requests : StemRecordingId(IdOf(r)) = IdOf(r)) =>
        \A r \in Requests : ~ReadForeignArtifact(r) /\ ~OwnArtifactOverwritten(r)

----------------------------------------------------------------------------
(* Claims about the external store                                          *)

\* the meeting records the store holds for the identifier of this request
MeetingRecords == {i \in 1..Len(store) : store[i].recording_id = RecordingId}

\* C22: when a delivery ends with a non-2xx response and the sender
\* redelivers the same webhook until it gets 200, the external store ends
\* with exactly one meeting record for that recording identifier.
C22_OneRecordAfterRetries ==
    (pc = "done" /\ response = <<200>>) => Cardinality(MeetingRecords) = 1

\* C22, the lower half: a delivery answered 200 has left a meeting record
C22_AtLeastOneRecord ==
    (pc = "done" /\ response = <<200>>) => Cardinality(MeetingRecords) >= 1

\* a first delivery answered 200 with its one record (no redelivery)
C22_WitnessFirstDelivery ==
    /\ pc = "done"
    /\ response = <<200>>
    /\ Len(store) = 1

----------------------------------------------------------------------------
(* Claims about what a request may do before it is authenticated            *)

\* control is at or past the creation of the directory (line 284)
PastAuthentication ==
    pc \in {"write", "run_pipeline", "summarize", "check_summary", "log", "respond"}

\* C23: in any POST request no file is written to the temporary area, no
\* directory is created, no stage is invoked and nothing is added to the
\* store unless verify_signature has returned true for that request's raw
\* body and headers.
C23_AuthenticationGatesEffects ==
    /\ []((PastAuthentication \/ stages # <<>> \/ written # {}) => Accepted)
    /\ [][(files' # files \/ stages' # stages \/ store' # store
             \/ written' # written) => (pc' = "do_POST" \/ Accepted)]_vars

\* a request whose signature did not verify has ended, with nothing written
\* and no stage run
C23_Witness ==
    /\ pc = "done"
    /\ response = <<401>>
    /\ Rejected
    /\ files = <<>>
    /\ stages = <<>>
    /\ store = <<>>

\* an authenticated request has written its transcript and run a stage
C23_WitnessAuthenticated ==
    /\ Accepted
    /\ files # <<>>
    /\ stages # <<>>

\* C24: whenever run_pipeline invokes the persistence stage, the summary
\* artifact summary_{id}.json it passes was written by the summarization
\* stage of that same run: a summary left on disk by an earlier run never
\* satisfies the existence check for a summarizer that exited 0 without
\* producing output.
C24_SummaryFromSameRun ==
    pc \in {"log", "respond"} => SummaryPath(RecordingId) \in written

\* C24 for a first delivery into an empty temporary area
C24_FreshWhenAreaEmpty ==
    [][(pc = "check_summary" /\ pc' = "log" /\ SummaryFiles \subseteq written)
          => SummaryPath(RecordingId) \in written]_vars

-----------------------------------------------------------------------------
(* process_meeting.py: the standalone driver.  main runs the three tools    *)
(* one after another on a recording id given on the command line; argv      *)
(* holds the parsed arguments, stages the subprocess.run calls made, files  *)
(* the temporary area, store the Meetings table, and response the exit      *)
(* code main returns.                                                        *)

\* the recording ids given on the command line: "x" and "transcript_x"
DriverRecordingIds == {<<120>>, TranscriptPrefix \o <<120>>}

\* argparse, lines 104-124: the positional recording id and the two flags
DriverArguments ==
    [recording_id : DriverRecordingIds, keep_files : BOOLEAN, skip_airtable : BOOLEAN]

\* the artifact paths main and cleanup_files build from the recording id
DriverPaths(recording_id) == {TranscriptPath(recording_id), SummaryPath(recording_id)}

\* a file of the temporary area; stale marks one left by an earlier run
DriverFile(stale) == [partial |-> FALSE, content |-> NoValue, stale |-> stale]

\* what the temporary area can hold when the driver starts: any of the two
\* artifacts of this recording id, from an earlier run
InitDriver ==
    /\ argv \in DriverArguments
    /\ tasks = <<>>
    /\ \E left \in SUBSET DriverPaths(argv.recording_id) :
         files = [p \in left |-> DriverFile(TRUE)]
    /\ pc = "fetch"
    /\ stages = <<>>
    /\ response = <<>>
    /\ store = <<>>
    /\ written = {}
    /\ now = BaseTime
    /\ environ = <<>>
    /\ headers = <<>>
    /\ raw_body = <<>>
    /\ vresult = NotCalled
    /\ payload = NoValue
    /\ nresult = NotCalled
    /\ rfile = <<>>
    /\ escaped = ""

\* how subprocess.run(cmd, capture_output=False) of run_tool can end: the
\* tool exits 0 or not, the process cannot be started, or the user
\* interrupts the driver while it waits
ToolOutcomes == {"exit0", "nonzero", "oserror", "interrupt"}

\* each tool returns 0 only after it has saved its artifact
\* (fetch_fathom_transcript.py lines 176-190, summarize_with_gemini.py
\* lines 431-438); one that fails or is interrupted may have saved it or
\* not; one that did not start has not
ToolWrote(outcome) ==
    CASE outcome = "exit0" -> {TRUE}
      [] outcome = "oserror" -> {FALSE}
      [] OTHER -> BOOLEAN

\* main's return: the exit code of the driver
Exit(code) ==
    /\ response' = Append(response, code)
    /\ pc' = "exited"

\* lines 198-211: ProcessingError and any other exception give 1,
\* KeyboardInterrupt gives 130
ToolFailureCode(outcome) == IF outcome = "interrupt" THEN 130 ELSE 1

\* run_tool, lines 49-73, with the handlers of main: a tool that does not
\* exit 0 ends the run
run_tool(script_name, outcome, next) ==
    /\ stages' = Append(stages, [label |-> script_name, outcome |-> outcome])
    /\ IF outcome = "exit0"
       THEN pc' = next /\ UNCHANGED response
       ELSE Exit(ToolFailureCode(outcome))

\* line 139: step 1, the fetch tool, which saves transcript_{id}.json
DriverFetch ==
    /\ pc = "fetch"
    /\ \E outcome \in ToolOutcomes, wrote \in BOOLEAN :
         /\ wrote \in ToolWrote(outcome)
         /\ run_tool("fetch_fathom_transcript", outcome, "check_transcript")
         /\ LET path == TranscriptPath(argv.recording_id)
            IN IF wrote
               THEN /\ files' = (path :> DriverFile(FALSE)) @@ files
                    /\ written' = written \cup {path}
               ELSE UNCHANGED <<files, written>>
    /\ UNCHANGED <<environ, now, headers, raw_body, vresult, payload, nresult,
                   rfile, escaped, store, argv, tasks>>

\* lines 141-143: the transcript artifact must exist
DriverCheckTranscript ==
    /\ pc = "check_transcript"
    /\ IF TranscriptPath(argv.recording_id) \in DOMAIN files
       THEN pc' = "summarize" /\ UNCHANGED response
       ELSE Exit(1)
    /\ UNCHANGED <<environ, now, headers, raw_body, vresult, payload, nresult,
                   files, stages, rfile, escaped, store, written, argv, tasks>>

\* line 150: step 2, the summarization tool, which names its artifact
\* after the stem of the transcript file (StemRecordingId)
DriverSummarize ==
    /\ pc = "summarize"
    /\ \E outcome \in ToolOutcomes, wrote \in BOOLEAN :
         /\ wrote \in ToolWrote(outcome)
         /\ run_tool("summarize_with_gemini", outcome, "check_summary")
         /\ LET path == SummaryPath(StemRecordingId(argv.recording_id))
            IN IF wrote
               THEN /\ files' = (path :> DriverFile(FALSE)) @@ files
                    /\ written' = written \cup {path}
               ELSE UNCHANGED <<files, written>>
    /\ UNCHANGED <<environ, now, headers, raw_body, vresult, payload, nresult,
                   rfile, escaped, store, argv, tasks>>

\* a slip: the existence check of the summary left out
DriverCheckSummary_Skipped ==
    /\ pc = "check_summary"
    /\ pc' = "log"
    /\ UNCHANGED <<environ, now, headers, raw_body, vresult, payload, nresult,
                   response, files, stages, rfile, escaped, store, written, argv, tasks>>

\* lines 152-154: the summary artifact must exist
DriverCheckSummary ==
    /\ pc = "check_summary"
    /\ IF SummaryPath(argv.recording_id) \in DOMAIN files
       THEN pc' = "log" /\ UNCHANGED response
       ELSE Exit(1)
    /\ UNCHANGED <<environ, now, headers, raw_body, vresult, payload, nresult,
                   files, stages, rfile, escaped, store, written, argv, tasks>>

\* lines 159-162: step 3, the persistence tool, unless --skip-airtable
DriverLog ==
    /\ pc = "log"
    /\ ~argv.skip_airtable
    /\ \E outcome \in ToolOutcomes :
         /\ run_tool("log_to_airtable", outcome, "cleanup")
         /\ \E created \in MeetingCreated(outcome) :
              store' = IF created
                       THEN Append(store, [recording_id |-> argv.recording_id])
                       ELSE store
    /\ UNCHANGED <<environ, now, headers, raw_body, vresult, payload, nresult,
                   files, rfile, escaped, written, argv, tasks>>

\* lines 163-165: --skip-airtable, nothing run
DriverSkipLog ==
    /\ pc = "log"
    /\ argv.skip_airtable
    /\ pc' = "cleanup"
    /\ UNCHANGED <<environ, now, headers, raw_body, vresult, payload, nresult,
                   response, files, stages, rfile, escaped, store, written, argv, tasks>>

\* cleanup_files, lines 76-99: the transcript, then the summary, each
\* unlinked if it exists.  failing names the unlink that raises, if one
\* does: nothing is removed when it is the first, the transcript alone when
\* it is the second
cleanup_files(recording_id, failing) ==
    LET removed == CASE failing = "transcript" -> {}
                     [] failing = "summary" -> {TranscriptPath(recording_id)}
                     [] OTHER -> DriverPaths(recording_id)
    IN [p \in DOMAIN files \ removed |-> files[p]]

\* the unlink calls of cleanup_files that can raise: those it makes
UnlinkFailures(recording_id) ==
    {"none"}
    \cup (IF TranscriptPath(recording_id) \in DOMAIN files THEN {"transcript"} ELSE {})
    \cup (IF SummaryPath(recording_id) \in DOMAIN files THEN {"summary"} ELSE {})

\* a slip: the intermediate files removed whatever --keep-files says
DriverCleanup_IgnoresKeep ==
    /\ pc = "cleanup"
    /\ \E failing \in UnlinkFailures(argv.recording_id) :
         /\ files' = cleanup_files(argv.recording_id, failing)
         /\ Exit(IF failing = "none" THEN 0 ELSE 1)
    /\ UNCHANGED <<environ, now, headers, raw_body, vresult, payload, nresult,
                   stages, rfile, escaped, store, written, argv, tasks>>

\* lines 170-196 and 207-211: the cleanup unless --keep-files, then 0; an
\* exception of unlink is any other exception of main, 1
DriverCleanup ==
    /\ pc = "cleanup"
    /\ IF argv.keep_files
       THEN UNCHANGED files /\ Exit(0)
       ELSE \E failing \in UnlinkFailures(argv.recording_id) :
              /\ files' = cleanup_files(argv.recording_id, failing)
              /\ Exit(IF failing = "none" THEN 0 ELSE 1)
    /\ UNCHANGED <<environ, now, headers, raw_body, vresult, payload, nresult,
                   stages, rfile, escaped, store, written, argv, tasks>>

NextDriver ==
    \/ DriverFetch
    \/ DriverCheckTranscript
    \/ DriverSummarize
    \/ DriverCheckSummary
    \/ DriverLog
    \/ DriverSkipLog
    \/ DriverCleanup

SpecDriver == InitDriver /\ [][NextDriver]_vars

-----------------------------------------------------------------------------
(* C25, C26: the standalone driver                                           *)

\* the tools main runs, in the order of its three steps
DriverSteps == <<"fetch_fathom_transcript", "summarize_with_gemini", "log_to_airtable">>

\* the steps this run is to make: the third one unless --skip-airtable
StepsToRun == IF argv.skip_airtable THEN SubSeq(DriverSteps, 1, 2) ELSE DriverSteps

\* the artifact main looks for after a step, if any
ArtifactOfStep(label) ==
    CASE label = "fetch_fathom_transcript" -> {TranscriptPath(argv.recording_id)}
      [] label = "summarize_with_gemini" -> {SummaryPath(argv.recording_id)}
      [] OTHER -> {}

\* every tool run so far exited 0
AllStagesSucceeded == \A i \in 1..Len(stages) : stages[i].outcome = "exit0"

\* a tool of the run failed: it exited non-zero or could not be started
SomeStageFailed == \E i \in 1..Len(stages) : stages[i].outcome \in {"nonzero", "oserror"}

\* the tools run so far are the first steps of fetch, summarize, log, the
\* last of them alone may have failed, none is the persistence tool under
\* --skip-airtable, and the exit code is 0 only after every step to run
\* exited 0 and 1 after a tool failure
DriverStagesInOrder ==
    /\ Len(stages) <= Len(StepsToRun)
    /\ \A i \in 1..Len(stages) : stages[i].label = StepsToRun[i]
    /\ \A i \in 1..(Len(stages) - 1) : stages[i].outcome = "exit0"
    /\ argv.skip_airtable =>
         \A i \in 1..Len(stages) : stages[i].label # "log_to_airtable"
    /\ pc = "exited" =>
         /\ response = <<0>> => AllStagesSucceeded /\ Len(stages) = Len(StepsToRun)
         /\ SomeStageFailed => response = <<1>>

\* a step that runs a tool is taken only when the tool before it exited 0
\* and left its artifact, and a run that ends for a missing artifact
\* returns 1
DriverStageStart ==
    /\ stages' # stages /\ stages # <<>> =>
         /\ stages[Len(stages)].outcome = "exit0"
         /\ ArtifactOfStep(stages[Len(stages)].label) \subseteq DOMAIN files
    /\ pc' = "exited" /\ pc # "cleanup" /\ stages' = stages => response' = <<1>>

\* C25: the driver runs fetch, summarize and log-to-Airtable in that
\* order, starts a step only when the one before exited 0 and its artifact
\* exists, never runs the Airtable step under --skip-airtable, and returns
\* 0 only if every step succeeded, 1 on a step or artifact failure
C25_DriverPipeline == []DriverStagesInOrder /\ [][DriverStageStart]_vars

\* the run made all three steps and returned 0
C25_Witness ==
    /\ pc = "exited"
    /\ response = <<0>>
    /\ ~argv.skip_airtable
    /\ Len(stages) = 3

\* the summarizer exited 0, its artifact is not where main looks for it,
\* and the run returned 1 without the persistence step
C25_WitnessArtifactMissing ==
    /\ pc = "exited"
    /\ response = <<1>>
    /\ Len(stages) = 2
    /\ AllStagesSucceeded
    /\ SummaryPath(argv.recording_id) \notin DOMAIN files

\* the paths of the two intermediate files of this recording id that exist
Intermediate == DriverPaths(argv.recording_id) \cap DOMAIN files

\* a step that removes an intermediate file is the cleanup of a run
\* without --keep-files in which every step to run exited 0; the step that
\* leaves both removed returns 0; no other step ends a run with 0 unless
\* --keep-files is set, and no step changes the content of a file it keeps
CleanupOnlyOnSuccess ==
    LET before == DriverPaths(argv.recording_id) \cap DOMAIN files
        after == DriverPaths(argv.recording_id) \cap DOMAIN files'
    IN /\ before \ after # {} =>
            /\ pc = "cleanup"
            /\ ~argv.keep_files
            /\ AllStagesSucceeded
            /\ Len(stages) = Len(StepsToRun)
       /\ before \ after # {} /\ after = {} => response' = <<0>>
       /\ pc' = "exited" /\ response' = <<0>> /\ ~argv.keep_files => after = {}
       /\ pc' = "exited" /\ response' = <<0>> /\ argv.keep_files =>
            /\ files' = files
            /\ before = DriverPaths(argv.recording_id)

\* the state of a finished run: after 0 without --keep-files no
\* intermediate file is left, after 0 with --keep-files both are there
IntermediateAtExit ==
    pc = "exited" /\ response = <<0>> =>
        IF argv.keep_files
        THEN Intermediate = DriverPaths(argv.recording_id)
        ELSE Intermediate = {}

C26_WitnessFailedRunKeeps ==
    /\ pc = "exited"
    /\ response = <<1>>
    /\ ~argv.keep_files
    /\ Len(stages) = 3
    /\ Intermediate = DriverPaths(argv.recording_id)

-----------------------------------------------------------------------------
(* log_to_airtable.py: the persistence tool.  main loads the summary and    *)
(* the transcript (payload), creates one record in the Meetings table       *)
(* (store), then one record in the Tasks table for each action item         *)
(* (tasks), displays the result and returns its exit code (response);       *)
(* escaped names the exception that ended main, if one did.                 *)

MaxActionItems == 2

MaxSpeakerSegments == 2

RECURSIVE JoinText(_, _)
\* sep.join(parts) for a separator of any length
JoinText(parts, sep) ==
    IF parts = <<>> THEN <<>>
    ELSE IF Len(parts) = 1 THEN parts[1]
    ELSE parts[1] \o sep \o JoinText(Tail(parts), sep)

\* "No attendees"
NoAttendees == <<78, 111, 32, 97, 116, 116, 101, 110, 100, 101, 101, 115>>

\* the Hebrew for "Meeting without name", the default Call Name
MeetingWithoutName == <<1508, 1490, 1497, 1513, 1492, 32, 1500, 1500, 1488, 32, 1513, 1501>>

\* the Hebrew for "Task without title", the default Task Description
TaskWithoutTitle ==
    <<1502, 1513, 1497, 1502, 1492, 32, 1500, 1500, 1488, 32, 1499, 1493, 1514, 1512, 1514>>

PriorityHigh == <<72, 105, 103, 104>>

PriorityMedium == <<77, 101, 100, 105, 117, 109>>

PriorityLow == <<76, 111, 119>>

\* "summary_"
SummaryPrefix == <<115, 117, 109, 109, 97, 114, 121, 95>>

RECURSIVE AttendeesLoop(_, _)
\* format_attendees, the loop of lines 118-124: seen is the dict, as the
\* sequence of its keys with their values in insertion order.  speaker.get
\* needs a dict: a str or None has no get
AttendeesLoop(items, seen) ==
    IF items = <<>> THEN ReturnedValue(seen)
    ELSE LET segment == Head(items)
         IN IF segment.t # "dict" THEN Raised("AttributeError")
            ELSE LET speaker == DictGet(segment, "speaker", EmptyDict)
                 IN IF speaker.t # "dict" THEN Raised("AttributeError")
                    ELSE LET name == DictGet(speaker, "display_name", PyStr(UnknownName))
                             email == DictGet(speaker, "matched_calendar_invitee_email", PyNone)
                             entry == [name |-> name,
                                       value |-> IF Falsy(email) THEN name ELSE email]
                             at == {i \in 1..Len(seen) : seen[i].name = name}
                         IN IF ~Hashable(name) THEN Raised("TypeError")
                            ELSE IF at = {}
                            THEN AttendeesLoop(Tail(items), Append(seen, entry))
                            ELSE IF ~Falsy(email)
                            THEN AttendeesLoop(Tail(items),
                                   [i \in 1..Len(seen) |-> IF i \in at THEN entry ELSE seen[i]])
                            ELSE AttendeesLoop(Tail(items), seen)

\* format_attendees, lines 101-127, on a transcript file of the shape
\* normalize_payload writes (the transcript key is there)
format_attendees(transcript_data) ==
    IF ~Iterable(transcript_data.transcript) THEN Raised("TypeError")
    ELSE LET loop == AttendeesLoop(IterItems(transcript_data.transcript), <<>>)
         IN IF loop.kind = "raise" THEN loop
            ELSE LET attendees == [i \in 1..Len(loop.value) |-> loop.value[i].value]
                 IN IF \E i \in 1..Len(attendees) : attendees[i].t # "str"
                    THEN Raised("TypeError")
                    ELSE IF attendees = <<>> THEN ReturnedValue(NoAttendees)
                    ELSE ReturnedValue(
                           JoinText([i \in 1..Len(attendees) |-> attendees[i].v],
                                    <<COMMA, SPACE>>))

\* line 144: the display name of a structured speaker, str() of any other
SpeakerLabel(segment) ==
    LET speaker_obj == DictGet(segment, "speaker", EmptyDict)
    IN ReturnedValue(IF speaker_obj.t = "dict"
                     THEN PyStrOf(DictGet(speaker_obj, "display_name", PyStr(UnknownName)))
                     ELSE PyStrOf(speaker_obj))

RECURSIVE PlainLines(_)
\* format_plain_transcript, the loop of lines 142-146: "{speaker}: {text}"
PlainLines(items) ==
    IF items = <<>> THEN ReturnedValue(<<>>)
    ELSE LET segment == Head(items)
         IN IF segment.t # "dict" THEN Raised("AttributeError")
            ELSE LET label == SpeakerLabel(segment)
                     rest == PlainLines(Tail(items))
                     text == PyStrOf(DictGet(segment, "text", PyStr(<<>>)))
                 IN IF label.kind = "raise" THEN label
                    ELSE IF rest.kind = "raise" THEN rest
                    ELSE ReturnedValue(<<label.value \o <<58, SPACE>> \o text>> \o rest.value)

\* format_plain_transcript, lines 130-148: the lines joined by "\n\n"
format_plain_transcript(transcript_data) ==
    IF ~Iterable(transcript_data.transcript) THEN Raised("TypeError")
    ELSE LET lines == PlainLines(IterItems(transcript_data.transcript))
         IN IF lines.kind = "raise" THEN lines
            ELSE ReturnedValue(JoinText(lines.value, <<10, 10>>))

\* summary.get('action_items', []) as a sequence: nothing for a missing or
\* empty value
ActionItems(summary) ==
    LET action_items == DictGet(summary, "action_items", PyList(<<>>))
    IN IF Falsy(action_items) THEN <<>> ELSE action_items.v

\* format_hebrew_summary, lines 151-191, for a summary without purpose,
\* takeaways and topics: the action item section indexes task['title'].
\* The value stands for the text: the bullet lines, without the headings
format_hebrew_summary(summary) ==
    LET action_items == ActionItems(summary)
    IN IF \E i \in 1..Len(action_items) : "title" \notin DOMAIN action_items[i].v
       THEN Raised("KeyError")
       ELSE ReturnedValue(
              JoinText([i \in 1..Len(action_items) |->
                          <<8226, SPACE>> \o PyStrOf(action_items[i].v["title"])], <<10>>))

\* map_priority_to_p_format, lines 194-209: priority.strip() needs a str;
\* P1, P2, P3 as 1, 2, 3
map_priority_to_p_format(priority) ==
    IF priority.t # "str" THEN Raised("AttributeError")
    ELSE LET stripped == StripRight(StripLeft(priority.v))
         IN ReturnedValue(CASE stripped = PriorityHigh -> 1
                            [] stripped = PriorityLow -> 3
                            [] OTHER -> 2)

\* line 452: summary_file.stem.replace("summary_", "")
SummaryStemRecordingId(stem) == RemoveAll(stem, SummaryPrefix)

\* lines 290-298: the fields of the meeting record, or the exception of
\* the first formatter that raises, in the order the dict literal calls them
MeetingFields(summary, transcript_data, recording_id) ==
    LET attendees == format_attendees(transcript_data)
        raw == format_plain_transcript(transcript_data)
        professional == format_hebrew_summary(summary)
    IN IF attendees.kind = "raise" THEN attendees
       ELSE IF raw.kind = "raise" THEN raw
       ELSE IF professional.kind = "raise" THEN professional
       ELSE ReturnedValue(
              [call_name |-> DictGet(summary, "meeting_title", PyStr(MeetingWithoutName)),
               attendees |-> attendees.value,
               raw_transcript |-> raw.value,
               professional_summary |-> professional.value,
               recording_id |-> recording_id])

\* lines 345-355: the fields of the task record of one action item
TaskFields(task, meeting) ==
    LET priority == map_priority_to_p_format(DictGet(task, "priority", PyStr(PriorityMedium)))
    IN IF priority.kind = "raise" THEN priority
       ELSE ReturnedValue(
              [description |-> DictGet(task, "title", PyStr(TaskWithoutTitle)),
               priority |-> priority.value,
               source_meeting |-> meeting])

\* the ids of the task records created, in order: the attempts that succeeded
TaskRecordIds == SelectSeq(tasks, LAMBDA a : a.created)

\* display_results, lines 407-428: for the i-th id created it prints the
\* title and the priority of the i-th action item, indexing both
display_results(task_record_ids, summary) ==
    LET action_items == ActionItems(summary)
    IN IF \E i \in 1..Len(task_record_ids) :
            {"title", "priority"} \ DOMAIN action_items[i].v # {}
       THEN Raised("KeyError")
       ELSE ReturnedValue(PyNone)

----------------------------------------------------------------------------
(* Inputs drawn for the persistence tool                                    *)

\* "a@h"
EmailA == PyStr(<<97, 64, 104>>)

\* the segments of the event: a structured speaker with and without an
\* invitee email, a second structured speaker, a bare-string speaker, and
\* a segment without a speaker
SpeakerSegments ==
    { PyDict([speaker |-> PyDict([display_name |-> NameA]), text |-> PyStr(<<104, 105>>)]),
      PyDict([speaker |-> PyDict([display_name |-> NameA,
                                  matched_calendar_invitee_email |-> EmailA])]),
      PyDict([speaker |-> PyDict([display_name |-> NameB])]),
      PyDict([speaker |-> NameA, text |-> PyStr(<<104, 105>>)]),
      PyDict([text |-> PyStr(<<111>>)]) }

\* the transcript files: what normalize_payload makes of an event with
\* these segments (webhook.py line 294 dumps it as it is)
TranscriptFilesDrawn ==
    { normalize_payload(
        PyDict([url |-> PyStr(<<SLASH>> \o Calls \o <<SLASH, 120>>),
                transcript |-> PyList(segs)]), BaseTime).value.normalized :
      segs \in SeqUpTo(SpeakerSegments, MaxSpeakerSegments) }

\* action items: as the summarizer's schema has them (title and priority,
\* both str), and as a summary file from elsewhere may: without priority,
\* without title, with a null priority
ActionItemsDrawn ==
    { PyDict([title |-> PyStr(<<116>>), priority |-> PyStr(PriorityHigh)]),
      PyDict([title |-> PyStr(<<117>>)]),
      PyDict([priority |-> PyStr(PriorityLow)]),
      PyDict([title |-> PyStr(<<118>>), priority |-> PyNone]) }

\* the summary files: a title, and action_items absent, null or a list
SummaryFilesDrawn ==
    { PyDict([meeting_title |-> PyStr(<<84>>)]),
      PyDict([meeting_title |-> PyStr(<<84>>), action_items |-> PyNone]) }
    \cup { PyDict([meeting_title |-> PyStr(<<84>>), action_items |-> PyList(items)]) :
           items \in SeqUpTo(ActionItemsDrawn, MaxActionItems) }

InitAirtable ==
    /\ pc = "load"
    /\ argv = [summary_file |-> SummaryPath(<<120>>), transcript_file |-> TranscriptPath(<<120>>)]
    /\ payload \in [summary : SummaryFilesDrawn, transcript_data : TranscriptFilesDrawn]
    /\ store = <<>>
    /\ tasks = <<>>
    /\ response = <<>>
    /\ escaped = ""
    /\ now = BaseTime
    /\ environ = <<>>
    /\ headers = <<>>
    /\ raw_body = <<>>
    /\ vresult = NotCalled
    /\ nresult = NotCalled
    /\ files = <<>>
    /\ stages = <<>>
    /\ rfile = <<>>
    /\ written = {}

\* main's handlers, lines 486-502: every exception is caught and gives 1
Fail(exc) ==
    /\ escaped' = exc
    /\ Exit(1)

\* lines 444-455: validate_environment, the two files loaded, the tables
AirtableLoad ==
    /\ pc = "load"
    /\ \E outcome \in {"ok", "EnvironmentError", "FileNotFoundError", "AirtableError"} :
         IF outcome = "ok"
         THEN pc' = "create_meeting" /\ UNCHANGED <<response, escaped>>
         ELSE Fail(outcome)
    /\ UNCHANGED <<environ, now, headers, raw_body, vresult, payload, nresult,
                   files, stages, rfile, store, written, argv, tasks>>

\* create_meeting_record, lines 272-312: the fields are built outside the
\* try, then meetings_table.create is called once
AirtableCreateMeeting ==
    /\ pc = "create_meeting"
    /\ LET fields == MeetingFields(payload.summary, payload.transcript_data,
                                   SummaryStemRecordingId(SummaryPrefix \o argv.summary_file[2]))
       IN IF fields.kind = "raise"
          THEN Fail(fields.diag) /\ UNCHANGED store
          ELSE \E created \in BOOLEAN :
                 IF created
                 THEN /\ store' = Append(store, fields.value)
                      /\ pc' = "create_tasks"
                      /\ UNCHANGED <<response, escaped>>
                 ELSE Fail("AirtableError") /\ UNCHANGED store
    /\ UNCHANGED <<environ, now, headers, raw_body, vresult, payload, nresult,
                   files, stages, rfile, written, argv, tasks>>

\* create_task_records, one round of the loop of lines 343-365: the
\* fields are built outside the try; a create that fails is printed and
\* the loop goes on
AirtableCreateTask ==
    /\ pc = "create_tasks"
    /\ Len(tasks) < Len(ActionItems(payload.summary))
    /\ LET i == Len(tasks) + 1
           fields == TaskFields(ActionItems(payload.summary)[i], Len(store))
       IN IF fields.kind = "raise"
          THEN Fail(fields.diag) /\ UNCHANGED tasks
          ELSE \E created \in BOOLEAN :
                 /\ tasks' = Append(tasks, [item |-> i, created |-> created,
                                            fields |-> fields.value])
                 /\ UNCHANGED <<pc, response, escaped>>
    /\ UNCHANGED <<environ, now, headers, raw_body, vresult, payload, nresult,
                   files, stages, rfile, store, written, argv>>

\* lines 475-484: after the loop, display_results and return 0
AirtableDisplay ==
    /\ pc = "create_tasks"
    /\ Len(tasks) = Len(ActionItems(payload.summary))
    /\ LET shown == display_results(TaskRecordIds, payload.summary)
       IN IF shown.kind = "raise"
          THEN Fail(shown.diag)
          ELSE Exit(0) /\ UNCHANGED escaped
    /\ UNCHANGED <<environ, now, headers, raw_body, vresult, payload, nresult,
                   files, stages, rfile, store, written, argv, tasks>>

\* webhook.py line 194: run_step stops the tool when the 270 s are over,
\* wherever it is; the tool then has no exit status of its own
AirtableKilled ==
    /\ pc \in {"load", "create_meeting", "create_tasks"}
    /\ escaped' = "TimeoutExpired"
    /\ Exit(-9)
    /\ UNCHANGED <<environ, now, headers, raw_body, vresult, payload, nresult,
                   files, stages, rfile, store, written, argv, tasks>>

NextAirtable ==
    \/ AirtableLoad
    \/ AirtableCreateMeeting
    \/ AirtableCreateTask
    \/ AirtableDisplay
    \/ AirtableKilled

SpecAirtable == InitAirtable /\ [][NextAirtable]_vars

-----------------------------------------------------------------------------
(* C27, C29: the persistence tool                                            *)

\* main has returned; the tool was not stopped from outside
ToolExited == pc = "exited" /\ escaped # "TimeoutExpired"

\* the summary is one the summarizer's schema admits: every action item
\* has a title and a priority, both str
SchemaSummary ==
    \A i \in 1..Len(ActionItems(payload.summary)) :
        LET task == ActionItems(payload.summary)[i].v
        IN /\ {"title", "priority"} \subseteq DOMAIN task
           /\ task["title"].t = "str"
           /\ task["priority"].t = "str"

\* C27: the exit status of the persistence tool depends only on the
\* meeting record: it exits 0 whenever the meeting record was created,
\* whatever became of the task records
C27_ExitFollowsMeetingRecord == ToolExited /\ store # <<>> => response = <<0>>

\* the parts of C27 the code keeps: no task record is attempted before
\* the meeting record exists, a run that returns 0 has attempted every
\* action item, and for a summary of the summarizer's schema the tool
\* returns 0 exactly when the meeting record was created
C27_HoldsForSchemaSummaries ==
    /\ tasks # <<>> => store # <<>>
    /\ ToolExited /\ response = <<0>> =>
         /\ store # <<>>
         /\ Len(tasks) = Len(ActionItems(payload.summary))
    /\ ToolExited /\ SchemaSummary /\ store # <<>> =>
         /\ response = <<0>>
         /\ Len(tasks) = Len(ActionItems(payload.summary))

\* every task creation failed and the tool returned 0
C27_WitnessAllTasksFailed ==
    /\ ToolExited
    /\ response = <<0>>
    /\ Len(tasks) = MaxActionItems
    /\ TaskRecordIds = <<>>

\* the segments of the transcript file
SegmentsOf(transcript_data) == IterItems(transcript_data.transcript)

\* a segment whose speaker is a bare string
BareSpeaker(segment) == "speaker" \in DOMAIN segment.v /\ segment.v["speaker"].t = "str"

\* the transcript carries a bare-string speaker
HasBareSpeaker ==
    \E i \in 1..Len(SegmentsOf(payload.transcript_data)) :
        BareSpeaker(SegmentsOf(payload.transcript_data)[i])

\* create_meeting_record has been called: main is past it, or an
\* exception of its formatters ended main
MeetingRecordAttempted ==
    /\ pc \in {"create_tasks", "exited"}
    /\ escaped \in {"", "AttributeError", "TypeError", "KeyError"}

\* both formatters of the meeting record return on the transcript
FormattersComplete ==
    /\ format_attendees(payload.transcript_data).kind = "return"
    /\ format_plain_transcript(payload.transcript_data).kind = "return"

\* C29: both speaker shapes normalization accepts are accepted by the
\* persistence stage: for a transcript with bare-string speakers the
\* attendee and the transcript formatting complete without error
C29_BareSpeakersFormatted ==
    MeetingRecordAttempted /\ HasBareSpeaker => FormattersComplete

\* what the code does: the formatters complete on structured speakers and
\* on segments without one, format_plain_transcript completes on bare
\* strings too, and a run on a transcript with a bare-string speaker never
\* creates the meeting record or returns 0
C29_StructuredSpeakersFormatted ==
    /\ ~HasBareSpeaker => FormattersComplete
    /\ format_plain_transcript(payload.transcript_data).kind = "return"
    /\ HasBareSpeaker => store = <<>> /\ response # <<0>>

\* a run on a transcript of structured speakers created the meeting record
C29_WitnessStructured ==
    /\ ToolExited
    /\ response = <<0>>
    /\ Len(SegmentsOf(payload.transcript_data)) = MaxSpeakerSegments
    /\ ~HasBareSpeaker

-----------------------------------------------------------------------------
(* C28: the signed content and the delivery it stands for                    *)

\* the identifier, timestamp and body of the request
RequestDelivery ==
    <<Get(headers, "webhook-id"), Get(headers, "webhook-timestamp"), raw_body>>

\* verify_signature accepted the request
Verified == vresult.kind = "return" /\ vresult.value = TRUE

\* the text holds no "."
DotFree(s) == ~Contains(s, DOT)

\* the signed content of the delivery d, as the receiver builds it
ContentOf(d) == SignedContent(d[1], d[2], Utf8Decode(d[3]))

\* the request carries the signature of the delivery d, another delivery
\* than the request's own, with a timestamp that parses as an integer
CarriesSignatureOfOther(d) ==
    /\ VerifyCalled
    /\ IntParses(d[2])
    /\ d # RequestDelivery
    /\ Get(headers, "webhook-signature") = SignatureOf(d)

\* C28: the signed content identifier.timestamp.body is unambiguous: a
\* signature valid for one delivery never verifies a request with a
\* different identifier, timestamp or body
C28_SignatureBindsDelivery ==
    \A d \in DeliveriesDrawn : CarriesSignatureOfOther(d) => ~Verified

\* C28 as the code has it: for identifiers without a ".", a delivery that
\* differs from the request has another signed content than the request,
\* and its signature does not verify the request
C28_BindsWhenIdentifierHasNoDot ==
    \A d \in DeliveriesDrawn :
        CarriesSignatureOfOther(d) /\ DotFree(d[1]) /\ DotFree(RequestDelivery[1])
           => /\ ~Verified
              /\ Utf8Valid(raw_body) => ContentOf(d) # ContentOf(RequestDelivery)

\* a request with the current secret carrying the signature of a delivery
\* that differs in the timestamp text only, " <now>" for "<now>", both
\* integers: rejected for want of a matching signature
C28_Witness ==
    /\ VerifyCalled
    /\ Get(environ, "FATHOM_WEBHOOK_SECRET") = SecretPrefix \o CurrentKeyB64
    /\ RequestDelivery = <<(<<109>>), <<SPACE>> \o IntToStr(BaseTime), (<<97>>)>>
    /\ CarriesSignatureOfOther(<<(<<109>>), IntToStr(BaseTime), (<<97>>)>>)
    /\ vresult.kind = "return"
    /\ vresult.value = FALSE

\* the request with the body "<now>.a" carrying the signature of the
\* delivery with the identifier "m.<now>": accepted
C28_WitnessReframed ==
    /\ Verified
    /\ ~DotFree(RequestDelivery[1]) \/ \E d \in DeliveriesDrawn :
          CarriesSignatureOfOther(d) /\ ~DotFree(d[1])

====
